---- MODULE Spec2Model ----
(***************************************************************************)
(* The @beartype decorator of beartype/_decor/decor.py: decoration of a    *)
(* callable (validation of its annotations, emission of the wrapper body   *)
(* as a sequence of code snippets, materialisation of the wrapper) and     *)
(* calls of the wrapper, executed one emitted snippet at a time.           *)
(***************************************************************************)
EXTENDS Integers, Sequences, FiniteSets, TLC

\* ------------------------------------------------------------------ bounds
MaxParams == 2
MaxArgs == 2
MaxCalls == 2
MaxAnnotated == 2
MaxLazy == 1
MaxItems == 2

\* ------------------------------------------------------- hints and objects
\* An annotation object. "name" is the list of "."-separated segments of a
\* string annotation, or the one-item list naming a class or other object.
Empty == [tag |-> "empty", name |-> <<>>, items |-> <<>>]
NoneHint == [tag |-> "none", name |-> <<>>, items |-> <<>>]
Class(c) == [tag |-> "class", name |-> <<c>>, items |-> <<>>]
Str(s) == [tag |-> "str", name |-> s, items |-> <<>>]
Tuple(t) == [tag |-> "tuple", name |-> <<>>, items |-> t]
Other(r) == [tag |-> "other", name |-> <<r>>, items |-> <<>>]

ClassType(annotation) == annotation.tag = "class"
IsStr(annotation) == annotation.tag = "str"
IsTuple(annotation) == annotation.tag = "tuple"

\* Mutant: strings left out of the valid tuple item types.
_HINTED_TUPLE_ITEM_VALID_TYPES_classes_only == {"class"}
_HINTED_TUPLE_ITEM_VALID_TYPES == {"class", "str"}

Classes == {"int", "str", "MyType"}
Values == {"v_int", "v_str", "v_obj"}
TypeOf(v) == CASE v = "v_int" -> "int" [] v = "v_str" -> "str" [] OTHER -> "MyType"

\* The importable modules and what their attributes are bound to.
Modules == {<<"mypkg">>}
ModuleAttrs(m) == IF m = <<"mypkg">> THEN {"MyType", "CONST"} ELSE {}
ModuleAttr(m, a) == IF a = "MyType" THEN Class("MyType") ELSE Other("CONST")
BuiltinNames == {"int", "str"}
Identifiers == {"mypkg", "nomod", "MyType", "CONST", "X", "int", "str", "f"}

\* ------------------------------------------------------------ signatures
POSITIONAL_ONLY == "POSITIONAL_ONLY"
POSITIONAL_OR_KEYWORD == "POSITIONAL_OR_KEYWORD"
VAR_POSITIONAL == "VAR_POSITIONAL"
KEYWORD_ONLY == "KEYWORD_ONLY"
VAR_KEYWORD == "VAR_KEYWORD"
Kinds == {POSITIONAL_ONLY, POSITIONAL_OR_KEYWORD, VAR_POSITIONAL, KEYWORD_ONLY, VAR_KEYWORD}
KindRank(k) == CASE k = POSITIONAL_ONLY -> 1 [] k = POSITIONAL_OR_KEYWORD -> 2
                 [] k = VAR_POSITIONAL -> 3 [] k = KEYWORD_ONLY -> 4 [] OTHER -> 5

\* Mutant: keyword-only parameters taken for ignorable too.
_PARAM_KIND_IGNORABLE_and_keyword_only == {POSITIONAL_ONLY, VAR_KEYWORD, KEYWORD_ONLY}
\* Mutant: variadic keyword parameters no longer ignored.
_PARAM_KIND_IGNORABLE_positional_only == {POSITIONAL_ONLY}
\* Mutant: positional-only parameters not ignored.
_PARAM_KIND_IGNORABLE_variadic_keyword == {VAR_KEYWORD}
_PARAM_KIND_IGNORABLE == {POSITIONAL_ONLY, VAR_KEYWORD}

ArgNames == <<"a", "b", "c">>
ReservedNames == {"__beartype_func", "__beartype_x"}
\* Mutant: only the one name the wrapper's signature uses is refused.
startswith_beartype_func_only(name) == name = "__beartype_func"
startswith_beartype(name) == name \in ReservedNames

Hints == {Empty, NoneHint, Class("int"),
          Str(<<"str">>), Str(<<"mypkg", "MyType">>), Str(<<"nomod", "X">>),
          Str(<<"mypkg", "CONST">>), Str(<<"">>),
          Tuple(<<Class("int"), Class("str")>>),
          Tuple(<<Class("int"), Str(<<"mypkg", "MyType">>)>>),
          Tuple(<<>>), Tuple(<<Class("int"), Other("3")>>), Other("3")}

\* The callables offered to the decorator: at most MaxParams parameters in an
\* order Python accepts, distinct names, at most MaxAnnotated annotations, at
\* most MaxLazy of them other than a class or None.
ParamChoices(i) == [name : {ArgNames[i]} \cup ReservedNames, kind : Kinds, annotation : Hints]
FollowsInOrder(prev, next) ==
    /\ KindRank(prev.kind) <= KindRank(next.kind)
    /\ prev.kind \in {VAR_POSITIONAL, VAR_KEYWORD} => KindRank(prev.kind) < KindRank(next.kind)
NumAnnotated(params, ret) ==
    Cardinality({i \in 1..Len(params) : params[i].annotation # Empty})
        + (IF ret # Empty THEN 1 ELSE 0)
IsLazy(annotation) == annotation.tag \notin {"empty", "none", "class"}
NumLazy(params, ret) ==
    Cardinality({i \in 1..Len(params) : IsLazy(params[i].annotation)})
        + (IF IsLazy(ret) THEN 1 ELSE 0)
WithinBudget(params, ret) ==
    NumAnnotated(params, ret) <= MaxAnnotated /\ NumLazy(params, ret) <= MaxLazy
RECURSIVE ParamLists(_)
ParamLists(n) ==
    IF n = 0 THEN {<<>>}
    ELSE {Append(p, q) : <<p, q>> \in
            {pq \in ParamLists(n - 1) \X ParamChoices(n) :
                /\ \A i \in 1..(n - 1) : pq[1][i].name # pq[2].name
                /\ n > 1 => FollowsInOrder(pq[1][n - 1], pq[2])
                /\ WithinBudget(Append(pq[1], pq[2]), Empty)}}
Funcs ==
    {[name |-> "f", params |-> pr[1], ret |-> pr[2]] :
        pr \in {pr \in (UNION {ParamLists(n) : n \in 0..MaxParams}) \X Hints :
                        WithinBudget(pr[1], pr[2])}}

\* func.__annotations__ as the interpreter builds it from the definition.
AnnotationKeys(f) ==
    {f.params[i].name : i \in {j \in 1..Len(f.params) : f.params[j].annotation # Empty}}
        \cup (IF f.ret # Empty THEN {"return"} ELSE {})
AnnotationOf(f, k) ==
    IF k = "return" THEN f.ret
    ELSE f.params[CHOOSE i \in 1..Len(f.params) : f.params[i].name = k].annotation
InitAnnotations(f) == [k \in AnnotationKeys(f) |-> AnnotationOf(f, k)]

\* ------------------------------------------------------------ exceptions
NoException == [exc |-> "none"]
BeartypeDecorHintValueException(annotation_label, offender) ==
    [exc |-> "BeartypeDecorHintValueException", label |-> annotation_label, offender |-> offender]
BeartypeDecorParamNameException(arg_name) ==
    [exc |-> "BeartypeDecorParamNameException", name |-> arg_name]
\* Mutant: the wrapper's body left out of the message.
BeartypeDecorParseException_without_body(func_name, func_body) ==
    [exc |-> "BeartypeDecorParseException", func_name |-> func_name, func_body |-> <<>>]
BeartypeDecorParseException(func_name, func_body) ==
    [exc |-> "BeartypeDecorParseException", func_name |-> func_name, func_body |-> func_body]

\* -------------------------------------------------- _check_type_annotation
FirstItemNotOf(annotation, tags) ==
    LET bad == {i \in 1..Len(annotation.items) : annotation.items[i].tag \notin tags}
    IN IF bad = {} THEN 0 ELSE CHOOSE i \in bad : \A j \in bad : i <= j

\* Mutant: string annotations refused whatever is_str_valid.
_check_type_annotation_no_names(annotation, annotation_label, is_str_valid) ==
    IF ClassType(annotation) THEN NoException
    ELSE IF IsTuple(annotation) THEN
        LET i == FirstItemNotOf(annotation, {"class"})
        IN IF i = 0 THEN NoException
           ELSE BeartypeDecorHintValueException(annotation_label, annotation.items[i])
    ELSE BeartypeDecorHintValueException(annotation_label, annotation)
\* Mutant: a string is valid only when it is a dotted sequence of identifiers.
_check_type_annotation_identifiers_only(annotation, annotation_label, is_str_valid) ==
    IF ClassType(annotation) THEN NoException
    ELSE IF is_str_valid THEN
        IF IsTuple(annotation) THEN
            LET bad == {i \in 1..Len(annotation.items) :
                            \/ annotation.items[i].tag \notin _HINTED_TUPLE_ITEM_VALID_TYPES
                            \/ /\ IsStr(annotation.items[i])
                               /\ \E j \in 1..Len(annotation.items[i].name) :
                                    annotation.items[i].name[j] \notin Identifiers}
            IN IF bad = {} THEN NoException
               ELSE BeartypeDecorHintValueException(
                        annotation_label, annotation.items[CHOOSE i \in bad : TRUE])
        ELSE IF ~IsStr(annotation) THEN
            BeartypeDecorHintValueException(annotation_label, annotation)
        ELSE IF \E j \in 1..Len(annotation.name) : annotation.name[j] \notin Identifiers THEN
            BeartypeDecorHintValueException(annotation_label, annotation)
        ELSE NoException
    ELSE IF IsTuple(annotation) THEN
        LET i == FirstItemNotOf(annotation, {"class"})
        IN IF i = 0 THEN NoException
           ELSE BeartypeDecorHintValueException(annotation_label, annotation.items[i])
    ELSE BeartypeDecorHintValueException(annotation_label, annotation)
_check_type_annotation(annotation, annotation_label, is_str_valid) ==
    IF ClassType(annotation) THEN NoException
    ELSE IF is_str_valid THEN
        IF IsTuple(annotation) THEN
            LET i == FirstItemNotOf(annotation, _HINTED_TUPLE_ITEM_VALID_TYPES)
            IN IF i = 0 THEN NoException
               ELSE BeartypeDecorHintValueException(annotation_label, annotation.items[i])
        ELSE IF ~IsStr(annotation) THEN
            BeartypeDecorHintValueException(annotation_label, annotation)
        ELSE NoException
    ELSE IF IsTuple(annotation) THEN
        LET i == FirstItemNotOf(annotation, {"class"})
        IN IF i = 0 THEN NoException
           ELSE BeartypeDecorHintValueException(annotation_label, annotation.items[i])
    ELSE BeartypeDecorHintValueException(annotation_label, annotation)

\* --------------------------------- _get_code_replacing_annotation_by_types
\* The code returned is the list of the snippets formatted, in order; the
\* empty string is the empty list. A dotted classname is split at its last ".".
HasDot(classname) == Len(classname) > 1
rsplit_module_name(classname) == SubSeq(classname, 1, Len(classname) - 1)
rsplit_basename(classname) == classname[Len(classname)]

_CODE_STR_REPLACE(annotation_expr, annotation_label, classname) ==
    [op |-> "STR_REPLACE", annotation_expr |-> annotation_expr,
     annotation_label |-> annotation_label,
     annotation_type_basename |-> rsplit_basename(classname),
     annotation_type_import_code |->
        IF HasDot(classname)
        THEN <<[annotation_type_module_name |-> rsplit_module_name(classname),
                annotation_type_basename |-> rsplit_basename(classname)]>>
        ELSE <<>>]

\* Mutant: the items that are classes are left out of the rebuilt tuple.
TupleItemCode_names_only(annotation, annotation_expr, annotation_label, subannotation_index) ==
    LET subannotation == annotation.items[subannotation_index]
    IN IF IsStr(subannotation) THEN
           (IF HasDot(subannotation.name)
            THEN <<[op |-> "TUPLE_STR_IMPORT",
                    subannotation_type_module_name |-> rsplit_module_name(subannotation.name),
                    subannotation_type_basename |-> rsplit_basename(subannotation.name)]>>
            ELSE <<>>)
           \o <<[op |-> "TUPLE_STR_APPEND", annotation_label |-> annotation_label,
                 subannotation_type_basename |-> rsplit_basename(subannotation.name)]>>
       ELSE <<>>
TupleItemCode(annotation, annotation_expr, annotation_label, subannotation_index) ==
    LET subannotation == annotation.items[subannotation_index]
    IN IF IsStr(subannotation) THEN
           (IF HasDot(subannotation.name)
            THEN <<[op |-> "TUPLE_STR_IMPORT",
                    subannotation_type_module_name |-> rsplit_module_name(subannotation.name),
                    subannotation_type_basename |-> rsplit_basename(subannotation.name)]>>
            ELSE <<>>)
           \o <<[op |-> "TUPLE_STR_APPEND", annotation_label |-> annotation_label,
                 subannotation_type_basename |-> rsplit_basename(subannotation.name)]>>
       ELSE <<[op |-> "TUPLE_CLASS_APPEND", annotation_expr |-> annotation_expr,
               subannotation_index |-> subannotation_index]>>

\* Mutant: the items of the tuple taken from the last to the first.
RECURSIVE TupleItemsCode_reversed(_, _, _, _)
TupleItemsCode_reversed(annotation, annotation_expr, annotation_label, subannotation_index) ==
    IF subannotation_index > Len(annotation.items) THEN <<>>
    ELSE TupleItemsCode_reversed(annotation, annotation_expr, annotation_label,
                                 subannotation_index + 1)
         \o TupleItemCode(annotation, annotation_expr, annotation_label, subannotation_index)
RECURSIVE TupleItemsCode(_, _, _, _)
TupleItemsCode(annotation, annotation_expr, annotation_label, subannotation_index) ==
    IF subannotation_index > Len(annotation.items) THEN <<>>
    ELSE TupleItemCode(annotation, annotation_expr, annotation_label, subannotation_index)
         \o TupleItemsCode(annotation, annotation_expr, annotation_label, subannotation_index + 1)

\* Mutant: the tuple's first item tested, not its first classname.
_get_code_replacing_annotation_by_types_first_item(annotation, annotation_expr, annotation_label) ==
    IF IsStr(annotation) THEN
        <<_CODE_STR_REPLACE(annotation_expr, annotation_label, annotation.name)>>
    ELSE IF IsTuple(annotation) THEN
        LET annotation_type_name_indices ==
                {i \in 1..Len(annotation.items) : IsStr(annotation.items[i])}
        IN IF annotation_type_name_indices = {} THEN <<>>
           ELSE <<[op |-> "TUPLE_STR_TEST", annotation_expr |-> annotation_expr,
                   subannotation_index |-> 1]>>
                \o TupleItemsCode(annotation, annotation_expr, annotation_label, 1)
                \o <<[op |-> "TUPLE_REPLACE", annotation_expr |-> annotation_expr]>>
    ELSE <<>>
\* Mutant: no prelude for an annotation that is itself a classname.
_get_code_replacing_annotation_by_types_tuples_only(annotation, annotation_expr, annotation_label) ==
    IF IsTuple(annotation) THEN
        LET annotation_type_name_indices ==
                {i \in 1..Len(annotation.items) : IsStr(annotation.items[i])}
        IN IF annotation_type_name_indices = {} THEN <<>>
           ELSE <<[op |-> "TUPLE_STR_TEST", annotation_expr |-> annotation_expr,
                   subannotation_index |->
                        CHOOSE i \in annotation_type_name_indices :
                            \A j \in annotation_type_name_indices : i <= j]>>
                \o TupleItemsCode(annotation, annotation_expr, annotation_label, 1)
                \o <<[op |-> "TUPLE_REPLACE", annotation_expr |-> annotation_expr]>>
    ELSE <<>>
_get_code_replacing_annotation_by_types(annotation, annotation_expr, annotation_label) ==
    IF IsStr(annotation) THEN
        <<_CODE_STR_REPLACE(annotation_expr, annotation_label, annotation.name)>>
    ELSE IF IsTuple(annotation) THEN
        LET annotation_type_name_indices ==
                {i \in 1..Len(annotation.items) : IsStr(annotation.items[i])}
        IN IF annotation_type_name_indices = {} THEN <<>>
           ELSE <<[op |-> "TUPLE_STR_TEST", annotation_expr |-> annotation_expr,
                   subannotation_index |->
                       CHOOSE i \in annotation_type_name_indices :
                           \A j \in annotation_type_name_indices : i <= j]>>
                \o TupleItemsCode(annotation, annotation_expr, annotation_label, 1)
                \o <<[op |-> "TUPLE_REPLACE", annotation_expr |-> annotation_expr]>>
    ELSE <<>>

\* ---------------------------------------------------------------- beartype
\* Mutant: the callable's name left out of the human-readable name.
func_name_of_unnamed(func) == [beartyped |-> "callable"]
func_name_of(func) == [beartyped |-> func.name]
func_beartyped_name_of(func) == <<"__", func.name, "_beartyped__">>
ParamLabel(func_name, arg_name) ==
    [func_name |-> func_name, of |-> "parameter", arg_name |-> arg_name]
ReturnLabel(func_name) == [func_name |-> func_name, of |-> "return", arg_name |-> "return"]
_CODE_ANNOTATIONS_PARAM(arg_name) == arg_name
_CODE_ANNOTATIONS_RETURN == "return"

\* Mutant: the parameter's index counted from 1.
ParamCheckCode_from_one(func_name, func_arg, func_arg_index) ==
    IF func_arg.kind = VAR_POSITIONAL THEN
        [op |-> "PARAM_VARIADIC_POSITIONAL", func_name |-> func_name,
         arg_name |-> func_arg.name, arg_index |-> func_arg_index + 1,
         arg_type_expr |-> _CODE_ANNOTATIONS_PARAM(func_arg.name)]
    ELSE IF func_arg.kind = KEYWORD_ONLY THEN
        [op |-> "PARAM_KEYWORD_ONLY", func_name |-> func_name,
         arg_name |-> func_arg.name,
         arg_type_expr |-> _CODE_ANNOTATIONS_PARAM(func_arg.name)]
    ELSE
        [op |-> "PARAM_POSITIONAL_OR_KEYWORD", func_name |-> func_name,
         arg_name |-> func_arg.name, arg_index |-> func_arg_index + 1,
         arg_type_expr |-> _CODE_ANNOTATIONS_PARAM(func_arg.name)]
\* The snippet checking one annotated parameter, by the parameter's kind.
ParamCheckCode(func_name, func_arg, func_arg_index) ==
    IF func_arg.kind = VAR_POSITIONAL THEN
        [op |-> "PARAM_VARIADIC_POSITIONAL", func_name |-> func_name,
         arg_name |-> func_arg.name, arg_index |-> func_arg_index,
         arg_type_expr |-> _CODE_ANNOTATIONS_PARAM(func_arg.name)]
    ELSE IF func_arg.kind = KEYWORD_ONLY THEN
        [op |-> "PARAM_KEYWORD_ONLY", func_name |-> func_name,
         arg_name |-> func_arg.name,
         arg_type_expr |-> _CODE_ANNOTATIONS_PARAM(func_arg.name)]
    ELSE
        [op |-> "PARAM_POSITIONAL_OR_KEYWORD", func_name |-> func_name,
         arg_name |-> func_arg.name, arg_index |-> func_arg_index,
         arg_type_expr |-> _CODE_ANNOTATIONS_PARAM(func_arg.name)]

\* Mutant: a parameter's code put before the code of the parameters declared
\* before it.
RECURSIVE ParamsCode_newest_first(_, _, _)
ParamsCode_newest_first(func, i, func_body) ==
    IF i > Len(func.params) THEN [exc |-> NoException, func_body |-> func_body]
    ELSE
        LET func_arg == func.params[i]
            func_arg_annotation_label == ParamLabel(func_name_of(func), func_arg.name)
            checked == _check_type_annotation(func_arg.annotation, func_arg_annotation_label, TRUE)
        IN IF startswith_beartype(func_arg.name) THEN
               [exc |-> BeartypeDecorParamNameException(func_arg.name), func_body |-> func_body]
           ELSE IF func_arg.annotation # Empty /\ func_arg.kind \notin _PARAM_KIND_IGNORABLE THEN
               IF checked # NoException THEN [exc |-> checked, func_body |-> func_body]
               ELSE ParamsCode_newest_first(func, i + 1,
                        <<func_body[1]>>
                        \o _get_code_replacing_annotation_by_types(
                               func_arg.annotation, _CODE_ANNOTATIONS_PARAM(func_arg.name),
                               func_arg_annotation_label)
                        \o <<ParamCheckCode(func_name_of(func), func_arg, i - 1)>>
                        \o Tail(func_body))
           ELSE ParamsCode_newest_first(func, i + 1, func_body)
\* Mutant: a parameter's check emitted before its prelude.
RECURSIVE ParamsCode_check_first(_, _, _)
ParamsCode_check_first(func, i, func_body) ==
    IF i > Len(func.params) THEN [exc |-> NoException, func_body |-> func_body]
    ELSE
        LET func_arg == func.params[i]
            func_arg_annotation_label == ParamLabel(func_name_of(func), func_arg.name)
            checked == _check_type_annotation(func_arg.annotation, func_arg_annotation_label, TRUE)
        IN IF startswith_beartype(func_arg.name) THEN
               [exc |-> BeartypeDecorParamNameException(func_arg.name), func_body |-> func_body]
           ELSE IF func_arg.annotation # Empty /\ func_arg.kind \notin _PARAM_KIND_IGNORABLE THEN
               IF checked # NoException THEN [exc |-> checked, func_body |-> func_body]
               ELSE ParamsCode_check_first(func, i + 1,
                        func_body
                        \o <<ParamCheckCode(func_name_of(func), func_arg, i - 1)>>
                        \o _get_code_replacing_annotation_by_types(
                               func_arg.annotation, _CODE_ANNOTATIONS_PARAM(func_arg.name),
                               func_arg_annotation_label))
           ELSE ParamsCode_check_first(func, i + 1, func_body)
\* The loop over the parameters, from the one at position i (1-based here,
\* func_arg_index = i - 1) with the body emitted so far; the first exception
\* raised ends it.
RECURSIVE ParamsCode(_, _, _)
ParamsCode(func, i, func_body) ==
    IF i > Len(func.params) THEN [exc |-> NoException, func_body |-> func_body]
    ELSE
        LET func_arg == func.params[i]
            func_arg_annotation_label == ParamLabel(func_name_of(func), func_arg.name)
            checked == _check_type_annotation(func_arg.annotation, func_arg_annotation_label, TRUE)
        IN IF startswith_beartype(func_arg.name) THEN
               [exc |-> BeartypeDecorParamNameException(func_arg.name), func_body |-> func_body]
           ELSE IF func_arg.annotation # Empty /\ func_arg.kind \notin _PARAM_KIND_IGNORABLE THEN
               IF checked # NoException THEN [exc |-> checked, func_body |-> func_body]
               ELSE ParamsCode(func, i + 1,
                        func_body
                        \o _get_code_replacing_annotation_by_types(
                               func_arg.annotation, _CODE_ANNOTATIONS_PARAM(func_arg.name),
                               func_arg_annotation_label)
                        \o <<ParamCheckCode(func_name_of(func), func_arg, i - 1)>>)
           ELSE ParamsCode(func, i + 1, func_body)

\* Mutant: the test for None inverted.
IsReturnChecked_only_none(func_return_annotation) ==
    func_return_annotation # Empty /\ func_return_annotation = NoneHint
\* The return annotation is checked unless it is absent or None.
IsReturnChecked(func_return_annotation) ==
    func_return_annotation # Empty /\ func_return_annotation # NoneHint

\* Mutant: the call and the return check emitted before the prelude of the
\* return annotation.
ReturnCode_call_first(func, func_body) ==
    LET func_return_annotation_label == ReturnLabel(func_name_of(func))
        checked == _check_type_annotation(func.ret, func_return_annotation_label, TRUE)
    IN IF IsReturnChecked(func.ret) THEN
           IF checked # NoException THEN [exc |-> checked, func_body |-> func_body]
           ELSE [exc |-> NoException,
                 func_body |->
                    func_body
                    \o <<[op |-> "CALL_CHECKED", func_name |-> func_name_of(func),
                          return_type |-> _CODE_ANNOTATIONS_RETURN]>>
                    \o _get_code_replacing_annotation_by_types(
                           func.ret, _CODE_ANNOTATIONS_RETURN, func_return_annotation_label)]
       ELSE [exc |-> NoException, func_body |-> func_body \o <<[op |-> "CALL_UNCHECKED"]>>]
ReturnCode(func, func_body) ==
    LET func_return_annotation_label == ReturnLabel(func_name_of(func))
        checked == _check_type_annotation(func.ret, func_return_annotation_label, TRUE)
    IN IF IsReturnChecked(func.ret) THEN
           IF checked # NoException THEN [exc |-> checked, func_body |-> func_body]
           ELSE [exc |-> NoException,
                 func_body |->
                    func_body
                    \o _get_code_replacing_annotation_by_types(
                           func.ret, _CODE_ANNOTATIONS_RETURN, func_return_annotation_label)
                    \o <<[op |-> "CALL_CHECKED", func_name |-> func_name_of(func),
                          return_type |-> _CODE_ANNOTATIONS_RETURN]>>]
       ELSE [exc |-> NoException, func_body |-> func_body \o <<[op |-> "CALL_UNCHECKED"]>>]

\* exec() of the body: the source compiles when every name formatted into it
\* as code is an identifier.
IsIdentifier(word) == word \in Identifiers
SnippetIdentifiers(snippet) ==
    CASE snippet.op = "SIGNATURE" -> {snippet.func_beartyped_name[2]}
      [] snippet.op = "STR_REPLACE" ->
            {snippet.annotation_type_basename}
            \cup UNION {{c.annotation_type_module_name[j] :
                            j \in 1..Len(c.annotation_type_module_name)} :
                        c \in {snippet.annotation_type_import_code[k] :
                                 k \in 1..Len(snippet.annotation_type_import_code)}}
      [] snippet.op = "TUPLE_STR_IMPORT" ->
            {snippet.subannotation_type_basename}
            \cup {snippet.subannotation_type_module_name[j] :
                    j \in 1..Len(snippet.subannotation_type_module_name)}
      [] snippet.op = "TUPLE_STR_APPEND" -> {snippet.subannotation_type_basename}
      [] OTHER -> {}
exec_compiles(func_body) ==
    \A i \in 1..Len(func_body) : \A w \in SnippetIdentifiers(func_body[i]) : IsIdentifier(w)

\* What exec() raises, and "raise ... from exception": the exception raised
\* with the one caught as its __cause__.
exec_exception(func_body) ==
    IF exec_compiles(func_body) THEN NoException ELSE [exc |-> "SyntaxError"]
raise_from(exception, cause) == exception @@ [__cause__ |-> cause]

beartype(func) ==
    LET signature == <<[op |-> "SIGNATURE", func_beartyped_name |-> func_beartyped_name_of(func)]>>
        params == ParamsCode(func, 1, signature)
        all == IF params.exc # NoException THEN params ELSE ReturnCode(func, params.func_body)
    IN IF all.exc # NoException THEN [status |-> "raised", exc |-> all.exc, func_body |-> <<>>]
       ELSE IF ~exec_compiles(all.func_body) THEN
           [status |-> "raised",
            exc |-> raise_from(BeartypeDecorParseException(func_name_of(func), all.func_body),
                               exec_exception(all.func_body)),
            func_body |-> <<>>]
       ELSE [status |-> "wrapper", exc |-> NoException, func_body |-> all.func_body]

\* ------------------------------------------------------------------ state
VARIABLES
    func,         \* the callable given to the decorator (its signature)
    annotations,  \* func.__annotations__
    wrapper,      \* what decorating func gave: a wrapper, or the exception raised
    pc,           \* position of the running wrapper call in func_body, 0 when none runs
    args,         \* the positional arguments of the running call
    kwargs,       \* its keyword arguments
    idx,          \* the index of the variadic loop
    locals_,      \* names bound by the import statements of the running call
    types,        \* the list a tuple prelude is filling
    result,       \* what the wrapped callable returned
    invoked,      \* how often the running call has called the wrapped callable
    outcome,      \* how the last wrapper call ended
    ncalls,       \* wrapper calls started so far
    trace,        \* the snippets the running call has executed, in order
    rebinds,      \* per annotation key, how often a prelude has overwritten the entry
    probe         \* a direct call of a helper function: its arguments and its result

vars == <<func, annotations, wrapper, pc, args, kwargs, idx, locals_, types, result,
          invoked, outcome, ncalls, trace, rebinds, probe>>

NoProbe == [fn |-> "none"]
NoOutcome == [kind |-> "none"]
NoResult == "no_result"
Undecorated == [status |-> "undecorated", exc |-> NoException, func_body |-> <<>>]

KwNames == {ArgNames[i] : i \in 1..MaxParams}
CallInputs ==
    {in \in (UNION {[1..n -> Values] : n \in 0..MaxArgs})
              \X (UNION {[K -> Values] : K \in SUBSET KwNames}) :
        Len(in[1]) + Cardinality(DOMAIN in[2]) <= MaxArgs}

Init ==
    /\ func \in Funcs
    /\ annotations = InitAnnotations(func)
    /\ wrapper = Undecorated
    /\ pc = 0
    /\ args = <<>>
    /\ kwargs = <<>>
    /\ idx = 0
    /\ locals_ = <<>>
    /\ types = <<>>
    /\ result = NoResult
    /\ invoked = 0
    /\ outcome = NoOutcome
    /\ ncalls = 0
    /\ trace = <<>>
    /\ rebinds = [k \in AnnotationKeys(func) |-> 0]
    /\ probe = NoProbe

\* ------------------------------------------------------------- decoration
Decorate ==
    /\ wrapper.status = "undecorated"
    /\ wrapper' = beartype(func)
    /\ UNCHANGED <<probe, func, annotations, pc, args, kwargs, idx, locals_, types, result,
                   invoked, outcome, ncalls, trace, rebinds>>

\* ------------------------------------------------------- the wrapper body
snippet == wrapper.func_body[pc]
Running(op) == pc > 0 /\ snippet.op = op

\* isinstance(obj, hint): "TypeError" when an item that is no class is reached.
RECURSIVE isinstance_from(_, _, _)
isinstance_from(obj, classes, i) ==
    IF i > Len(classes) THEN "False"
    ELSE IF ~ClassType(classes[i]) THEN "TypeError"
    ELSE IF TypeOf(obj) = classes[i].name[1] THEN "True"
    ELSE isinstance_from(obj, classes, i + 1)
isinstance(obj, hint) ==
    IF ClassType(hint) THEN (IF TypeOf(obj) = hint.name[1] THEN "True" ELSE "False")
    ELSE IF IsTuple(hint) THEN isinstance_from(obj, hint.items, 1)
    ELSE "TypeError"

\* Name lookup in the running call: the names its imports bound, then builtins.
Unbound == [tag |-> "unbound", name |-> <<>>, items |-> <<>>]
ImportFrom(module_name, basename) ==
    IF module_name \in Modules /\ basename \in ModuleAttrs(module_name)
    THEN ModuleAttr(module_name, basename) ELSE Unbound
Lookup(bound, basename) ==
    IF basename \in DOMAIN bound THEN bound[basename]
    ELSE IF basename \in BuiltinNames THEN Class(basename)
    ELSE Unbound
Bind(bound, basename, obj) ==
    [n \in DOMAIN bound \cup {basename} |-> IF n = basename THEN obj ELSE bound[n]]

ParamTypeError(s, index, value) ==
    [kind |-> "ParamTypeError", func_name |-> s.func_name, arg_name |-> s.arg_name,
     index |-> index, value |-> value]
ReturnTypeError(s, value) ==
    [kind |-> "ReturnTypeError", func_name |-> s.func_name, value |-> value]
ForwardRefError(annotation_label) == [kind |-> "ForwardRefError", label |-> annotation_label]
TypeErrorRaised == [kind |-> "TypeError"]
FuncException == [kind |-> "FuncException"]
Returned(value) == [kind |-> "return", value |-> value]


Event(op, key, index) == [op |-> op, key |-> key, index |-> index]
Raise(exception) == pc' = 0 /\ outcome' = exception
Continue == pc' = pc + 1 /\ outcome' = outcome

\* A call of the wrapper with the given arguments enters the body after its
\* signature line.
Call(a, kw) ==
    /\ wrapper.status = "wrapper"
    /\ pc = 0
    /\ outcome = NoOutcome
    /\ ncalls < MaxCalls
    /\ pc' = 2
    /\ args' = a
    /\ kwargs' = kw
    /\ idx' = 0
    /\ locals_' = <<>>
    /\ types' = <<>>
    /\ result' = NoResult
    /\ invoked' = 0
    /\ outcome' = NoOutcome
    /\ ncalls' = ncalls + 1
    /\ trace' = <<>>
    /\ UNCHANGED <<probe, func, annotations, wrapper, rebinds>>

\* Prelude of a classname annotation: while the entry is still a string,
\* import the class, require it to be a class and overwrite the entry.
StrReplace ==
    /\ Running("STR_REPLACE")
    /\ LET key == snippet.annotation_expr
           imports == snippet.annotation_type_import_code
           bound == IF imports = <<>> THEN locals_
                    ELSE Bind(locals_, imports[1].annotation_type_basename,
                              ImportFrom(imports[1].annotation_type_module_name,
                                         imports[1].annotation_type_basename))
           obj == Lookup(bound, snippet.annotation_type_basename)
       IN /\ trace' = Append(trace, Event("STR_REPLACE", key, -1))
          /\ IF ~IsStr(annotations[key]) THEN
                 Continue /\ UNCHANGED <<annotations, locals_, rebinds>>
             ELSE IF _check_type_annotation(obj, snippet.annotation_label, FALSE) # NoException THEN
                 Raise(ForwardRefError(snippet.annotation_label))
                 /\ UNCHANGED <<annotations, locals_, rebinds>>
             ELSE
                 /\ Continue
                 /\ locals_' = bound
                 /\ annotations' = [annotations EXCEPT ![key] = obj]
                 /\ rebinds' = [rebinds EXCEPT ![key] = @ + 1]
    /\ UNCHANGED <<probe, func, wrapper, args, kwargs, idx, types, result, invoked, ncalls>>

\* Prelude of a tuple annotation holding classnames: test its first classname;
\* when that is no string any more, skip the rebuilding.
AfterTupleReplace ==
    1 + CHOOSE j \in pc..Len(wrapper.func_body) :
            /\ wrapper.func_body[j].op = "TUPLE_REPLACE"
            /\ \A k \in pc..(j - 1) : wrapper.func_body[k].op # "TUPLE_REPLACE"
TupleStrTest ==
    /\ Running("TUPLE_STR_TEST")
    /\ LET key == snippet.annotation_expr
       IN /\ trace' = Append(trace, Event("TUPLE_STR_TEST", key, -1))
          /\ IF IsStr(annotations[key].items[snippet.subannotation_index])
             THEN pc' = pc + 1 /\ types' = <<>>
             ELSE pc' = AfterTupleReplace /\ types' = types
    /\ UNCHANGED <<probe, func, annotations, wrapper, args, kwargs, idx, locals_, result, invoked,
                   outcome, ncalls, rebinds>>

TupleStrImport ==
    /\ Running("TUPLE_STR_IMPORT")
    /\ LET obj == ImportFrom(snippet.subannotation_type_module_name,
                             snippet.subannotation_type_basename)
       IN /\ trace' = Append(trace, Event("TUPLE_STR_IMPORT", "", -1))
          /\ IF obj = Unbound THEN
                 Raise(ForwardRefError(wrapper.func_body[pc + 1].annotation_label))
                 /\ locals_' = locals_
             ELSE Continue /\ locals_' = Bind(locals_, snippet.subannotation_type_basename, obj)
    /\ UNCHANGED <<probe, func, annotations, wrapper, args, kwargs, idx, types, result, invoked,
                   ncalls, rebinds>>

TupleStrAppend ==
    /\ Running("TUPLE_STR_APPEND")
    /\ LET obj == Lookup(locals_, snippet.subannotation_type_basename)
       IN /\ trace' = Append(trace, Event("TUPLE_STR_APPEND", "", -1))
          /\ IF _check_type_annotation(obj, snippet.annotation_label, FALSE) # NoException THEN
                 Raise(ForwardRefError(snippet.annotation_label)) /\ types' = types
             ELSE Continue /\ types' = Append(types, obj)
    /\ UNCHANGED <<probe, func, annotations, wrapper, args, kwargs, idx, locals_, result, invoked,
                   ncalls, rebinds>>

TupleClassAppend ==
    /\ Running("TUPLE_CLASS_APPEND")
    /\ trace' = Append(trace, Event("TUPLE_CLASS_APPEND", snippet.annotation_expr, -1))
    /\ types' = Append(types, annotations[snippet.annotation_expr].items[snippet.subannotation_index])
    /\ Continue
    /\ UNCHANGED <<probe, func, annotations, wrapper, args, kwargs, idx, locals_, result, invoked,
                   ncalls, rebinds>>

TupleReplace ==
    /\ Running("TUPLE_REPLACE")
    /\ trace' = Append(trace, Event("TUPLE_REPLACE", snippet.annotation_expr, -1))
    /\ annotations' = [annotations EXCEPT ![snippet.annotation_expr] = Tuple(types)]
    /\ rebinds' = [rebinds EXCEPT ![snippet.annotation_expr] = @ + 1]
    /\ Continue
    /\ UNCHANGED <<probe, func, wrapper, args, kwargs, idx, locals_, types, result, invoked, ncalls>>

\* The check of one value against the entry of the annotation mapping.
CheckValue(s, value, index) ==
    LET ok == isinstance(value, annotations[s.arg_type_expr])
    IN IF ok = "True" THEN Continue
       ELSE IF ok = "False" THEN Raise(ParamTypeError(s, index, value))
       ELSE Raise(TypeErrorRaised)

\* Variadic positional parameter: one element of args[arg_index:] per step, by
\* its index in that tail; past the last element the loop ends.
ParamVariadicPositional ==
    /\ Running("PARAM_VARIADIC_POSITIONAL")
    /\ IF snippet.arg_index + idx >= Len(args) THEN
           /\ Continue
           /\ idx' = 0
           /\ trace' = trace
       ELSE
           /\ trace' = Append(trace, Event("PARAM_VARIADIC_POSITIONAL", snippet.arg_name, idx))
           /\ LET value == args[snippet.arg_index + idx + 1]
                  ok == isinstance(value, annotations[snippet.arg_type_expr])
              IN IF ok = "True" THEN pc' = pc /\ outcome' = outcome /\ idx' = idx + 1
                 ELSE IF ok = "False"
                      THEN Raise(ParamTypeError(snippet, idx, value)) /\ idx' = idx
                      ELSE Raise(TypeErrorRaised) /\ idx' = idx
    /\ UNCHANGED <<probe, func, annotations, wrapper, args, kwargs, locals_, types, result, invoked,
                   ncalls, rebinds>>

\* Keyword-only parameter: checked when passed.
ParamKeywordOnly ==
    /\ Running("PARAM_KEYWORD_ONLY")
    /\ trace' = Append(trace, Event("PARAM_KEYWORD_ONLY", snippet.arg_name, -1))
    /\ IF snippet.arg_name \in DOMAIN kwargs
       THEN CheckValue(snippet, kwargs[snippet.arg_name], -1)
       ELSE Continue
    /\ UNCHANGED <<probe, func, annotations, wrapper, args, kwargs, idx, locals_, types, result,
                   invoked, ncalls, rebinds>>

\* Positional or keyword parameter: the positional argument at its index when
\* the call passes that many, else the keyword argument of its name when passed.
ParamPositionalOrKeyword ==
    /\ Running("PARAM_POSITIONAL_OR_KEYWORD")
    /\ trace' = Append(trace, Event("PARAM_POSITIONAL_OR_KEYWORD", snippet.arg_name, -1))
    /\ IF Len(args) > snippet.arg_index
       THEN CheckValue(snippet, args[snippet.arg_index + 1], -1)
       ELSE IF snippet.arg_name \in DOMAIN kwargs
       THEN CheckValue(snippet, kwargs[snippet.arg_name], -1)
       ELSE Continue
    /\ UNCHANGED <<probe, func, annotations, wrapper, args, kwargs, idx, locals_, types, result,
                   invoked, ncalls, rebinds>>

\* The wrapped callable runs: it returns some value or raises.
FuncResults == Values \cup {"raise"}

\* result = __beartype_func(*args, **kwargs)
CallChecked(r) ==
    /\ Running("CALL_CHECKED")
    /\ invoked = 0
    /\ invoked' = 1
    /\ trace' = Append(trace, Event("CALL", "", -1))
    /\ IF r = "raise" THEN Raise(FuncException) /\ result' = result
       ELSE pc' = pc /\ outcome' = outcome /\ result' = r
    /\ UNCHANGED <<probe, func, annotations, wrapper, args, kwargs, idx, locals_, types, ncalls,
                   rebinds>>

\* The check of the value returned, then its return.
CheckReturn ==
    /\ Running("CALL_CHECKED")
    /\ invoked = 1
    /\ trace' = Append(trace, Event("RETURN_CHECK", "return", -1))
    /\ LET ok == isinstance(result, annotations[snippet.return_type])
       IN IF ok = "True" THEN Raise(Returned(result))
          ELSE IF ok = "False" THEN Raise(ReturnTypeError(snippet, result))
          ELSE Raise(TypeErrorRaised)
    /\ UNCHANGED <<probe, func, annotations, wrapper, args, kwargs, idx, locals_, types, result,
                   invoked, ncalls, rebinds>>

\* return __beartype_func(*args, **kwargs)
CallUnchecked(r) ==
    /\ Running("CALL_UNCHECKED")
    /\ invoked' = invoked + 1
    /\ trace' = Append(trace, Event("CALL", "", -1))
    /\ IF r = "raise" THEN Raise(FuncException) /\ result' = result
       ELSE Raise(Returned(r)) /\ result' = r
    /\ UNCHANGED <<probe, func, annotations, wrapper, args, kwargs, idx, locals_, types, ncalls,
                   rebinds>>

\* The call has ended (returned or raised): its frame is gone.
Exit ==
    /\ pc = 0
    /\ outcome # NoOutcome
    /\ args' = <<>>
    /\ kwargs' = <<>>
    /\ idx' = 0
    /\ locals_' = <<>>
    /\ types' = <<>>
    /\ result' = NoResult
    /\ invoked' = 0
    /\ outcome' = NoOutcome
    /\ trace' = <<>>
    /\ UNCHANGED <<probe, func, annotations, wrapper, pc, ncalls, rebinds>>

Next ==
    \/ Decorate
    \/ \E in \in CallInputs : Call(in[1], in[2])
    \/ StrReplace
    \/ TupleStrTest
    \/ TupleStrImport
    \/ TupleStrAppend
    \/ TupleClassAppend
    \/ TupleReplace
    \/ ParamVariadicPositional
    \/ ParamKeywordOnly
    \/ ParamPositionalOrKeyword
    \/ \E r \in FuncResults : CallChecked(r)
    \/ CheckReturn
    \/ \E r \in FuncResults : CallUnchecked(r)
    \/ Exit

Spec == Init /\ [][Next]_vars

\* ------------------------------------ _check_type_annotation called alone
\* The annotations, labels and flags it is called with: every tuple of at most
\* MaxItems items, and the objects that are no tuple.
TupleItems == {Class("int"), Str(<<"mypkg", "MyType">>), Other("3"), NoneHint}
ValidateHints ==
    TupleItems \cup {Tuple(t) : t \in UNION {[1..n -> TupleItems] : n \in 0..MaxItems}}
ValidateLabels == {ParamLabel(func_name_of([name |-> "f"]), "a"),
                   ReturnLabel(func_name_of([name |-> "f"]))}
Pending == [exc |-> "pending"]

InitValidate ==
    /\ func = [name |-> "f", params |-> <<>>, ret |-> Empty]
    /\ annotations = InitAnnotations(func)
    /\ wrapper = Undecorated
    /\ pc = 0
    /\ args = <<>>
    /\ kwargs = <<>>
    /\ idx = 0
    /\ locals_ = <<>>
    /\ types = <<>>
    /\ result = NoResult
    /\ invoked = 0
    /\ outcome = NoOutcome
    /\ ncalls = 0
    /\ trace = <<>>
    /\ rebinds = [k \in AnnotationKeys(func) |-> 0]
    /\ probe \in [fn : {"_check_type_annotation"}, annotation : ValidateHints,
                  annotation_label : ValidateLabels, is_str_valid : BOOLEAN,
                  raised : {Pending}]

CheckTypeAnnotation ==
    /\ probe.fn = "_check_type_annotation"
    /\ probe.raised = Pending
    /\ probe' = [probe EXCEPT !.raised =
                    _check_type_annotation(probe.annotation, probe.annotation_label,
                                           probe.is_str_valid)]
    /\ UNCHANGED <<func, annotations, wrapper, pc, args, kwargs, idx, locals_, types, result,
                   invoked, outcome, ncalls, trace, rebinds>>

SpecValidate == InitValidate /\ [][CheckTypeAnnotation]_vars

\* ----------------------------------------------------------------------
\* What the claims speak of, read off the signature and the call, not off the
\* emitted body.
\* ----------------------------------------------------------------------
Ended == pc = 0 /\ outcome # NoOutcome
IsCheckedParam(param) ==
    param.annotation # Empty /\ param.kind \in {POSITIONAL_OR_KEYWORD, VAR_POSITIONAL, KEYWORD_ONLY}
CheckedParams(f) == {p \in 1..Len(f.params) : IsCheckedParam(f.params[p])}

\* The class a classname stands for in the modules at hand, if any.
Denotes(classname) ==
    IF Len(classname) = 1
    THEN (IF classname[1] \in BuiltinNames THEN {classname[1]} ELSE {})
    ELSE (IF /\ SubSeq(classname, 1, Len(classname) - 1) \in Modules
             /\ classname = <<"mypkg", "MyType">>
          THEN {"MyType"} ELSE {})
ExpectedTypes(hint) ==
    CASE hint.tag = "class" -> {hint.name[1]}
      [] hint.tag = "str" -> Denotes(hint.name)
      [] hint.tag = "tuple" ->
            UNION {IF hint.items[i].tag = "class" THEN {hint.items[i].name[1]}
                   ELSE IF hint.items[i].tag = "str" THEN Denotes(hint.items[i].name)
                   ELSE {} : i \in 1..Len(hint.items)}
      [] OTHER -> {}
Resolvable(hint) ==
    CASE hint.tag = "str" -> Denotes(hint.name) # {}
      [] hint.tag = "tuple" ->
            \A i \in 1..Len(hint.items) :
                hint.items[i].tag = "str" => Denotes(hint.items[i].name) # {}
      [] OTHER -> TRUE
Passes(value, hint) == TypeOf(value) \in ExpectedTypes(hint)

\* The positions in args, or the keyword, a parameter's incoming values are at.
IncomingValues(f, p, a, kw) ==
    LET param == f.params[p]
    IN IF param.kind = VAR_POSITIONAL THEN {a[j] : j \in p..Len(a)}
       ELSE IF param.kind = KEYWORD_ONLY THEN
           (IF param.name \in DOMAIN kw THEN {kw[param.name]} ELSE {})
       ELSE IF Len(a) >= p THEN {a[p]}
       ELSE IF param.name \in DOMAIN kw THEN {kw[param.name]}
       ELSE {}
Violated(f, p, a, kw) ==
    /\ IsCheckedParam(f.params[p])
    /\ \E v \in IncomingValues(f, p, a, kw) : ~Passes(v, f.params[p].annotation)
ViolatedParams == {p \in 1..Len(func.params) : Violated(func, p, args, kwargs)}
ParamsResolvable == \A p \in CheckedParams(func) : Resolvable(func.params[p].annotation)
Leftmost(S) == CHOOSE p \in S : \A q \in S : p <= q

\* C1: the wrapped callable is invoked only when no checked parameter's
\* incoming value violates its hint; a call in which one does ends without
\* invoking it, by ParamTypeError (by the failure to resolve a classname when
\* an annotation names no class).
C1_CheckedBeforeInvoked ==
    /\ invoked > 0 => ViolatedParams = {}
    /\ (Ended /\ ViolatedParams # {}) =>
            /\ invoked = 0
            /\ outcome.kind \in {"ParamTypeError", "ForwardRefError"}
            /\ ParamsResolvable => outcome.kind = "ParamTypeError"
C1_Witness ==
    /\ Ended /\ ViolatedParams # {} /\ outcome.kind = "ParamTypeError" /\ invoked = 0
    /\ \E p \in ViolatedParams : func.params[p].kind = KEYWORD_ONLY

\* C2: once the wrapped callable has returned a value, the wrapper raises
\* ReturnTypeError exactly when the return annotation is present, is not None
\* and the value is no instance of it; otherwise it returns that very value.
ShouldFailReturn ==
    /\ func.ret # Empty
    /\ func.ret # NoneHint
    /\ ~Passes(result, func.ret)
C2_ReturnCheck ==
    /\ (Ended /\ result # NoResult) =>
            /\ outcome.kind = "ReturnTypeError" <=> ShouldFailReturn
            /\ ~ShouldFailReturn => outcome = Returned(result)
    /\ (Ended /\ outcome.kind \in {"ReturnTypeError", "return"}) =>
            result # NoResult /\ invoked = 1 /\ outcome.value = result
C2_Witness ==
    /\ Ended /\ outcome.kind = "ReturnTypeError" /\ IsTuple(func.ret) /\ Len(func.ret.items) = 2

\* C3: for a parameter annotated with a tuple of two types (A, B), a value of
\* class A or B is not rejected, and the call goes on to the wrapped callable
\* when nothing else is violated; a value of neither class is rejected by
\* ParamTypeError naming the parameter, when no other parameter is violated.
IsPairOfClasses(hint) ==
    IsTuple(hint) /\ Len(hint.items) = 2 /\ \A i \in 1..2 : hint.items[i].tag = "class"
IsPairOfTypes(hint) ==
    /\ IsTuple(hint) /\ Len(hint.items) = 2 /\ Resolvable(hint)
    /\ \A i \in 1..2 : hint.items[i].tag \in {"class", "str"}
C3_TupleUnion ==
    Ended =>
        \A p \in CheckedParams(func) :
            IsPairOfTypes(func.params[p].annotation) =>
                LET AB == ExpectedTypes(func.params[p].annotation)
                    incoming == IncomingValues(func, p, args, kwargs)
                    rejected == /\ outcome.kind = "ParamTypeError"
                                /\ outcome.arg_name = func.params[p].name
                IN /\ Cardinality(AB) = 2
                   /\ (\A v \in incoming : TypeOf(v) \in AB) => ~rejected
                   /\ (\A v \in incoming : TypeOf(v) \in AB) /\ ViolatedParams = {}
                          /\ Resolvable(func.ret)
                        => invoked = 1
                   /\ (\E v \in incoming : TypeOf(v) \notin AB) /\ ViolatedParams = {p}
                        => rejected /\ TypeOf(outcome.value) \notin AB
C3_Witness ==
    /\ Ended /\ outcome.kind = "ParamTypeError"
    /\ \E p \in CheckedParams(func) :
        /\ IsPairOfClasses(func.params[p].annotation)
        /\ outcome.arg_name = func.params[p].name
        /\ func.params[p].kind = POSITIONAL_OR_KEYWORD
        /\ outcome.value = "v_obj"

\* C4: the checks run in the order the parameters are declared in, and the
\* ParamTypeError of a call names the leftmost parameter whose incoming value
\* violates its hint; a call violating several hints ends by ParamTypeError.
CheckOps == {"PARAM_VARIADIC_POSITIONAL", "PARAM_KEYWORD_ONLY", "PARAM_POSITIONAL_OR_KEYWORD"}
PositionOf(arg_name) == CHOOSE p \in 1..Len(func.params) : func.params[p].name = arg_name
C4_LeftmostViolator ==
    /\ \A i, j \in 1..Len(trace) :
            (i < j /\ trace[i].op \in CheckOps /\ trace[j].op \in CheckOps)
                => PositionOf(trace[i].key) <= PositionOf(trace[j].key)
    /\ (Ended /\ outcome.kind = "ParamTypeError") =>
            /\ ViolatedParams # {}
            /\ outcome.arg_name = func.params[Leftmost(ViolatedParams)].name
    /\ (Ended /\ Cardinality(ViolatedParams) >= 2 /\ ParamsResolvable) =>
            outcome.kind = "ParamTypeError"
C4_Witness ==
    /\ Ended /\ Cardinality(ViolatedParams) >= 2 /\ outcome.kind = "ParamTypeError"
    /\ outcome.arg_name = func.params[1].name

\* C5: the elements of the variadic tail are checked in index order, each
\* before the wrapped callable is invoked, and the first one violating the
\* hint ends the call by ParamTypeError carrying the parameter's name and the
\* element's 0-based index in the tail, whatever precedes the tail in args.
VariadicEvents(n) == {i \in 1..n : trace[i].op = "PARAM_VARIADIC_POSITIONAL"}
ContainsName(hint) ==
    IsStr(hint) \/ (IsTuple(hint) /\ \E i \in 1..Len(hint.items) : IsStr(hint.items[i]))
CheckedKeys ==
    {func.params[p].name : p \in CheckedParams(func)}
        \cup (IF func.ret \notin {Empty, NoneHint} THEN {"return"} ELSE {})
C6_ResolvedOnce ==
    /\ [](ncalls = 0 => annotations = InitAnnotations(func))
    /\ [](\A k \in DOMAIN rebinds :
            /\ rebinds[k] <= 1
            /\ rebinds[k] = 1 =>
                  /\ ~ContainsName(annotations[k])
                  /\ ContainsName(AnnotationOf(func, k))
                  /\ ExpectedTypes(annotations[k]) = ExpectedTypes(AnnotationOf(func, k)))
    /\ []((Ended /\ outcome.kind = "return") =>
            \A k \in CheckedKeys : ~ContainsName(annotations[k]))
    /\ [][\A k \in DOMAIN annotations :
            ~ContainsName(annotations[k]) =>
                annotations'[k] = annotations[k] /\ rebinds'[k] = rebinds[k]]_vars
C6_Witness ==
    /\ ncalls = 2 /\ Ended /\ outcome.kind = "return"
    /\ \E p \in CheckedParams(func) :
        /\ IsStr(func.params[p].annotation)
        /\ rebinds[func.params[p].name] = 1
        /\ IncomingValues(func, p, args, kwargs) # {}

\* C7: a callable whose annotations are classes, classnames and tuples of
\* them, the classnames well formed, is decorated without error even when a
\* classname names no module or no class; what decoration raises is an
\* invalid-hint, reserved-name or parse error, never for a classname as such;
\* a wrapper call raises none of these, and in a callable with a classname
\* standing for no class every call ends, before the wrapped callable is
\* invoked, by the failure to resolve it, unless a parameter declared before
\* that annotation is rejected first.
WellFormed(classname) == \A i \in 1..Len(classname) : classname[i] \in Identifiers
IsValidHint(hint) ==
    \/ hint.tag = "class"
    \/ hint.tag = "str" /\ WellFormed(hint.name)
    \/ /\ hint.tag = "tuple"
       /\ \A i \in 1..Len(hint.items) :
            \/ hint.items[i].tag = "class"
            \/ hint.items[i].tag = "str" /\ WellFormed(hint.items[i].name)
HasReservedName(f) ==
    \E p \in 1..Len(f.params) : f.params[p].name \in {"__beartype_func", "__beartype_x"}
ShouldDecorate(f) ==
    /\ ~HasReservedName(f)
    /\ \A p \in CheckedParams(f) : IsValidHint(f.params[p].annotation)
    /\ f.ret \in {Empty, NoneHint} \/ IsValidHint(f.ret)
\* Positions of the checked annotations naming no class: parameters by their
\* position, the return annotation after them all.
DanglingPositions ==
    {p \in CheckedParams(func) : ~Resolvable(func.params[p].annotation)}
        \cup (IF func.ret \notin {Empty, NoneHint} /\ ~Resolvable(func.ret)
              THEN {Len(func.params) + 1} ELSE {})
DecorationErrors == {"BeartypeDecorHintValueException", "BeartypeDecorParamNameException",
                     "BeartypeDecorParseException"}
HasInvalidHintBefore(f, p) ==
    \E q \in 1..(p - 1) : IsCheckedParam(f.params[q]) /\ ~IsValidHint(f.params[q].annotation)
           /\ ~(f.params[q].annotation.tag = "str")
ReservedPositions(f) ==
    {p \in 1..Len(f.params) : f.params[p].name \in {"__beartype_func", "__beartype_x"}}
C8_AsClaimed ==
    (wrapper.status # "undecorated" /\ HasReservedName(func)) =>
        /\ wrapper.status = "raised"
        /\ wrapper.exc.exc = "BeartypeDecorParamNameException"

\* C8: a callable with a parameter of a reserved name is refused at decoration
\* and no wrapper is made, whatever the parameter's kind and annotation: by the
\* reserved-name error naming the leftmost such parameter, unless a parameter
\* declared before it carries an invalid annotation, which is then the error.
C8_ReservedName ==
    (wrapper.status # "undecorated" /\ HasReservedName(func)) =>
        LET p == Leftmost(ReservedPositions(func))
        IN /\ wrapper.status = "raised"
           /\ wrapper.func_body = <<>>
           /\ IF HasInvalidHintBefore(func, p)
              THEN /\ wrapper.exc.exc = "BeartypeDecorHintValueException"
                   /\ PositionOf(wrapper.exc.label.arg_name) < p
              ELSE wrapper.exc = BeartypeDecorParamNameException(func.params[p].name)
C8_Witness ==
    /\ wrapper.status = "raised"
    /\ wrapper.exc.exc = "BeartypeDecorParamNameException"
    /\ \E p \in 1..Len(func.params) :
        /\ func.params[p].name = "__beartype_x"
        /\ func.params[p].name = wrapper.exc.name
        /\ func.params[p].kind = VAR_KEYWORD
        /\ func.params[p].annotation = Empty

\* C9: _check_type_annotation raises nothing exactly for a class, for a string
\* when strings are valid, and for a tuple of classes and, when strings are
\* valid, strings; for anything else it raises the invalid-hint exception with
\* the label and the offending annotation or tuple item.
Accepted(hint, allow_names) ==
    \/ hint.tag = "class"
    \/ hint.tag = "str" /\ allow_names
    \/ /\ hint.tag = "tuple"
       /\ \A i \in 1..Len(hint.items) :
            hint.items[i].tag = "class" \/ (hint.items[i].tag = "str" /\ allow_names)
HasEmptyTuple(f) ==
    \/ \E p \in CheckedParams(f) : f.params[p].annotation = Tuple(<<>>)
    \/ f.ret = Tuple(<<>>)
C10_EmptyTupleRejected ==
    (wrapper.status # "undecorated" /\ HasEmptyTuple(func)) => wrapper.status = "raised"

\* ----------------------------------------------------------------------
\* The module's decorator applied, and applied again to what it returned.
\* ----------------------------------------------------------------------
MaxApplied == 2

\* The name "beartype" as the module's top level leaves it: the checking
\* decorator, redefined as the identity decorator when __debug__ is false.
\* Mutant: the redefinition left out.
ModuleBeartype_never_redefined(debug) == "checking"
ModuleBeartype(debug) == IF ~debug THEN "identity" ELSE "checking"

\* The callable the decorator is given: func itself or, inside "layers"
\* wrappers, the wrapper last made. update_wrapper() gives a wrapper the name
\* and the __wrapped__ of what it wraps, so inspect.signature() of a wrapper is
\* the signature of func, and beartype() of a wrapper emits what beartype() of
\* func emits.
ApplyBeartype ==
    /\ probe.fn = "beartype"
    /\ probe.applied < MaxApplied
    /\ probe.raised = NoException
    /\ probe' =
        IF probe.decorator = "identity" THEN [probe EXCEPT !.applied = @ + 1]
        ELSE LET made == beartype(func)
             IN IF made.status = "raised"
                THEN [probe EXCEPT !.applied = @ + 1, !.raised = made.exc]
                ELSE [probe EXCEPT !.applied = @ + 1, !.layers = @ + 1]
    /\ UNCHANGED <<func, annotations, wrapper, pc, args, kwargs, idx, locals_, types, result,
                   invoked, outcome, ncalls, trace, rebinds>>

\* The hints that constrain nothing: the class object and typing.Any, which is
\* an object of the typing module and neither a class, a string nor a tuple.
typing_Any == Other("typing.Any")
IgnorableHints == {Class("object"), typing_Any}
IgnorableParams ==
    UNION {[1..n -> [name : {"a", "b"}, kind : Kinds \ _PARAM_KIND_IGNORABLE,
                     annotation : IgnorableHints \cup {Empty}]] : n \in 0..MaxParams}
IgnorableFuncs ==
    {[name |-> "f", params |-> pr[1], ret |-> pr[2]] :
        pr \in {pr \in IgnorableParams \X (IgnorableHints \cup {Empty}) :
                    /\ \A i \in 1..Len(pr[1]) : pr[1][i].name = ArgNames[i]
                    /\ \A i \in 1..(Len(pr[1]) - 1) : FollowsInOrder(pr[1][i], pr[1][i + 1])
                    /\ AnnotationKeys([params |-> pr[1], ret |-> pr[2]]) # {}}}

InitModule ==
    /\ func \in Funcs \cup IgnorableFuncs
    /\ annotations = InitAnnotations(func)
    /\ wrapper = Undecorated
    /\ pc = 0
    /\ args = <<>>
    /\ kwargs = <<>>
    /\ idx = 0
    /\ locals_ = <<>>
    /\ types = <<>>
    /\ result = NoResult
    /\ invoked = 0
    /\ outcome = NoOutcome
    /\ ncalls = 0
    /\ trace = <<>>
    /\ rebinds = [k \in AnnotationKeys(func) |-> 0]
    /\ \E debug \in BOOLEAN :
        probe = [fn |-> "beartype", debug |-> debug, decorator |-> ModuleBeartype(debug),
                 applied |-> 0, layers |-> 0, raised |-> NoException]

SpecModule == InitModule /\ [][ApplyBeartype]_vars

\* C11 as claimed: the decorator applied to a callable it has already wrapped
\* returns that very wrapper, so that the callable stays inside one wrapper.
C11_AlreadyWrappedUnchanged ==
    (probe.fn = "beartype" /\ probe.decorator = "checking" /\ probe.applied = 2
        /\ probe.raised = NoException)
    => probe.layers = 1

\* ----------------------------------------------------------------------
\* A call of the wrapper of a wrapper: beartype(beartype(func)).
\* ----------------------------------------------------------------------
\* The wrapper as the decorator sees it when given it: functools.update_wrapper
\* has copied __name__ and set __wrapped__, which inspect.signature() follows,
\* and __annotations__ is the very mapping of the wrapped callable.
\* Mutant: the wrapper left with a name of its own.
update_wrapper_name_lost(wrapped) == [wrapped EXCEPT !.name = "X"]
update_wrapper(wrapped) == wrapped

NoWrapper == [status |-> "none", exc |-> NoException, func_body |-> <<>>]

\* One experiment in two stages. Stage "once": func is decorated and the
\* wrapper called. Stage "twice": func is defined anew, decorated, the wrapper
\* decorated again and the outer wrapper called with the same arguments, the
\* wrapped callable behaving as it did. probe.once keeps how the first call
\* ended, probe.depth is the wrapper running (1 the outer one), and "wrapper"
\* is the wrapper whose body is running.
InitTwice ==
    /\ func \in Funcs
    /\ annotations = InitAnnotations(func)
    /\ wrapper = Undecorated
    /\ pc = 0
    /\ args = <<>>
    /\ kwargs = <<>>
    /\ idx = 0
    /\ locals_ = <<>>
    /\ types = <<>>
    /\ result = NoResult
    /\ invoked = 0
    /\ outcome = NoOutcome
    /\ ncalls = 0
    /\ trace = <<>>
    /\ rebinds = [k \in AnnotationKeys(func) |-> 0]
    /\ probe = [fn |-> "twice", stage |-> "once", depth |-> 1, once |-> NoOutcome,
                behaviour |-> "any", inner |-> NoWrapper, outer |-> NoWrapper]

CallOnce(a, kw) == probe.fn = "twice" /\ probe.stage = "once" /\ ncalls = 0 /\ Call(a, kw)

\* The second stage begins where the first call has ended.
DecorateTwice ==
    /\ probe.fn = "twice"
    /\ probe.stage = "once"
    /\ pc = 0
    /\ outcome # NoOutcome
    /\ LET inner == beartype(func)
           outer == beartype(update_wrapper(func))
       IN /\ probe' = [probe EXCEPT !.stage = "twice", !.once = outcome,
                          !.behaviour = IF invoked = 0 THEN "any"
                                        ELSE IF result = NoResult THEN "raise" ELSE result,
                          !.inner = inner, !.outer = outer]
          /\ wrapper' = outer
          /\ pc' = IF outer.status = "wrapper" THEN 2 ELSE 0
    /\ annotations' = InitAnnotations(func)
    /\ rebinds' = [k \in AnnotationKeys(func) |-> 0]
    /\ idx' = 0
    /\ locals_' = <<>>
    /\ types' = <<>>
    /\ result' = NoResult
    /\ invoked' = 0
    /\ outcome' = NoOutcome
    /\ trace' = <<>>
    /\ ncalls' = ncalls + 1
    /\ UNCHANGED <<func, args, kwargs>>

\* __beartype_func(*args, **kwargs) in the outer wrapper calls the inner one.
IsCall == pc > 0 /\ snippet.op \in {"CALL_CHECKED", "CALL_UNCHECKED"}
EnterInner ==
    /\ probe.fn = "twice"
    /\ probe.stage = "twice"
    /\ probe.depth = 1
    /\ IsCall
    /\ invoked = 0
    /\ result = NoResult
    /\ probe' = [probe EXCEPT !.depth = 2]
    /\ wrapper' = probe.inner
    /\ pc' = 2
    /\ idx' = 0
    /\ locals_' = <<>>
    /\ types' = <<>>
    /\ trace' = Append(trace, Event("CALL", "", -1))
    /\ UNCHANGED <<func, annotations, args, kwargs, result, invoked, outcome, ncalls, rebinds>>

\* The inner wrapper has returned or raised: the outer one goes on at its call,
\* checking the value returned when its call is a checked one, and an
\* exception passes through it.
CallPc(body) == CHOOSE j \in 1..Len(body) : body[j].op \in {"CALL_CHECKED", "CALL_UNCHECKED"}
LeaveInner ==
    /\ probe.fn = "twice"
    /\ probe.depth = 2
    /\ pc = 0
    /\ outcome # NoOutcome
    /\ probe' = [probe EXCEPT !.depth = 1]
    /\ wrapper' = probe.outer
    /\ LET at == CallPc(probe.outer.func_body)
       IN IF outcome.kind = "return" /\ probe.outer.func_body[at].op = "CALL_CHECKED"
          THEN pc' = at /\ outcome' = NoOutcome /\ result' = outcome.value /\ invoked' = 1
          ELSE pc' = 0 /\ UNCHANGED <<outcome, result, invoked>>
    /\ UNCHANGED <<func, annotations, args, kwargs, idx, locals_, types, ncalls, trace, rebinds>>

\* The wrapped callable, called by the innermost wrapper, behaves in the
\* second stage as it did in the first.
Innermost == probe.fn = "twice" /\ (probe.stage = "once" \/ probe.depth = 2)
Behaves(r) == probe.behaviour \in {"any", r}

NextTwice ==
    \/ Decorate
    \/ \E in \in CallInputs : CallOnce(in[1], in[2])
    \/ DecorateTwice
    \/ EnterInner
    \/ LeaveInner
    \/ StrReplace
    \/ TupleStrTest
    \/ TupleStrImport
    \/ TupleStrAppend
    \/ TupleClassAppend
    \/ TupleReplace
    \/ ParamVariadicPositional
    \/ ParamKeywordOnly
    \/ ParamPositionalOrKeyword
    \/ \E r \in FuncResults : Innermost /\ Behaves(r) /\ CallChecked(r)
    \/ CheckReturn
    \/ \E r \in FuncResults : Innermost /\ Behaves(r) /\ CallUnchecked(r)

SpecTwice == InitTwice /\ [][NextTwice]_vars

\* C12: the wrapper of the wrapper of a callable, called with the arguments
\* the wrapper of the callable was called with, ends as that call ended: it
\* returns the same value or raises the same error for the same parameter,
\* and the callable is invoked as often.
EndedTwice ==
    /\ probe.fn = "twice" /\ probe.stage = "twice" /\ probe.depth = 1
    /\ pc = 0 /\ outcome # NoOutcome
C12_TwiceAsOnce ==
    /\ (probe.fn = "twice" /\ probe.stage = "twice") => probe.outer.status = "wrapper"
    /\ EndedTwice => (outcome = probe.once /\ (invoked = 1) = (probe.behaviour # "any"))
C12_Witness ==
    /\ EndedTwice
    /\ outcome.kind = "return"
    /\ \E k \in DOMAIN rebinds : rebinds[k] = 1
    /\ Cardinality({e \in 1..Len(trace) : trace[e].op = "RETURN_CHECK"}) = 2
    /\ Cardinality({e \in 1..Len(trace) : trace[e].op = "PARAM_POSITIONAL_OR_KEYWORD"}) = 2

\* C13 as claimed: the decorator given a callable without any annotation
\* returns the callable itself: it makes no wrapper and raises nothing.
C13_UnannotatedUnchanged ==
    (probe.fn = "beartype" /\ probe.decorator = "checking" /\ probe.applied >= 1
        /\ AnnotationKeys(func) = {})
    => (probe.layers = 0 /\ probe.raised = NoException)

\* C14: with __debug__ false the name beartype is bound, when the module is
\* executed, to the identity decorator and stays so: applied to any callable,
\* also one with a reserved parameter name or an invalid annotation, and
\* applied again, it raises nothing and makes no wrapper.
C14_Optimized ==
    /\ [](probe.fn = "beartype" =>
            /\ probe.decorator = "identity" <=> ~probe.debug
            /\ ~probe.debug => (probe.layers = 0 /\ probe.raised = NoException))
    /\ [][probe.fn = "beartype" => probe'.decorator = probe.decorator /\ probe'.debug = probe.debug]_vars
C14_Witness ==
    /\ probe.fn = "beartype"
    /\ ~probe.debug
    /\ probe.applied = 2
    /\ probe.layers = 0
    /\ beartype(func).status = "raised"
    /\ \E p \in 1..Len(func.params) :
            func.params[p].name = "__beartype_func" /\ func.params[p].annotation = Other("3")

\* C15 as claimed: the decorator given a callable all of whose annotations
\* are ignorable hints raises nothing.
AllIgnorable(f) ==
    /\ AnnotationKeys(f) # {}
    /\ \A k \in AnnotationKeys(f) : AnnotationOf(f, k) \in IgnorableHints
C15_IgnorableNeverErrors ==
    (probe.fn = "beartype" /\ probe.decorator = "checking" /\ probe.applied >= 1
        /\ AllIgnorable(func))
    => probe.raised = NoException

\* ----------------------------------------------------------------------
\* The argument shapes of the wrapper and of the callable it wraps.
\* ----------------------------------------------------------------------
\* The callables called here: annotated with classes only, every parameter
\* with a default value.
ShapeFuncs ==
    {f \in Funcs :
        /\ \A k \in AnnotationKeys(f) : AnnotationOf(f, k) = Class("int")
        /\ \A p \in 1..Len(f.params) : ~startswith_beartype(f.params[p].name)}

\* What a call passes by keyword: parameter names and the name of the
\* wrapper's own parameter; "g" is a callable that takes any arguments.
ShapeKwNames == KwNames \cup {"__beartype_func"}
ShapeInputs ==
    {in \in (UNION {[1..n -> Values] : n \in 0..MaxArgs})
              \X (UNION {[K -> Values \cup {"g"}] : K \in SUBSET ShapeKwNames}) :
        /\ Len(in[1]) + Cardinality(DOMAIN in[2]) <= MaxArgs
        /\ \A k \in DOMAIN in[2] : in[2][k] = "g" => k = "__beartype_func"}

\* Python's binding of a call to the signature of f: no more positional
\* arguments than positional parameters unless *args is declared, and every
\* keyword the name of a parameter that takes keywords and has no positional
\* argument, unless **kwargs is declared.
PositionalParams(f) ==
    {p \in 1..Len(f.params) : f.params[p].kind \in {POSITIONAL_ONLY, POSITIONAL_OR_KEYWORD}}
HasKind(f, kind) == \E p \in 1..Len(f.params) : f.params[p].kind = kind
Accepts(f, a, kw) ==
    /\ Len(a) <= Cardinality(PositionalParams(f)) \/ HasKind(f, VAR_POSITIONAL)
    /\ \A k \in DOMAIN kw :
        \/ \E p \in 1..Len(f.params) :
            /\ f.params[p].name = k
            /\ \/ f.params[p].kind = KEYWORD_ONLY
               \/ f.params[p].kind = POSITIONAL_OR_KEYWORD /\ p > Len(a)
        \/ /\ HasKind(f, VAR_KEYWORD)
           /\ \A p \in 1..Len(f.params) :
                f.params[p].name = k => f.params[p].kind = POSITIONAL_ONLY

\* The wrapper's signature is (*args, __beartype_func=__beartype_func,
\* **kwargs): it binds every call, and a keyword __beartype_func is bound to
\* its own parameter and not left in kwargs.
WrapperKwargs(kw) == [k \in DOMAIN kw \ {"__beartype_func"} |-> kw[k]]
WrapperCallee(kw) == IF "__beartype_func" \in DOMAIN kw THEN kw["__beartype_func"] ELSE "func"

InitShapes ==
    /\ func \in ShapeFuncs
    /\ annotations = InitAnnotations(func)
    /\ wrapper = Undecorated
    /\ pc = 0
    /\ args = <<>>
    /\ kwargs = <<>>
    /\ idx = 0
    /\ locals_ = <<>>
    /\ types = <<>>
    /\ result = NoResult
    /\ invoked = 0
    /\ outcome = NoOutcome
    /\ ncalls = 0
    /\ trace = <<>>
    /\ rebinds = [k \in AnnotationKeys(func) |-> 0]
    /\ probe = [fn |-> "shape", given |-> <<>>, accepts |-> FALSE, callee |-> "func"]

CallShaped(a, kw) ==
    /\ probe.fn = "shape"
    /\ wrapper.status = "wrapper"
    /\ pc = 0
    /\ ncalls = 0
    /\ probe' = [probe EXCEPT !.given = kw, !.accepts = Accepts(func, a, kw),
                              !.callee = WrapperCallee(kw)]
    /\ pc' = 2
    /\ args' = a
    /\ kwargs' = WrapperKwargs(kw)
    /\ ncalls' = 1
    /\ UNCHANGED <<func, annotations, wrapper, idx, locals_, types, result, invoked, outcome,
                   trace, rebinds>>

\* What __beartype_func(*args, **kwargs) does: the wrapped callable raises
\* TypeError for arguments it does not accept, an object that is no callable
\* cannot be called, and the callable g returns or raises what it likes.
CalleeDoes(r) ==
    /\ probe.fn = "shape"
    /\ probe.callee = "func" => (Accepts(func, args, kwargs) \/ r = "raise")
    /\ probe.callee \in Values => r = "raise"

NextShapes ==
    \/ Decorate
    \/ \E in \in ShapeInputs : CallShaped(in[1], in[2])
    \/ ParamVariadicPositional
    \/ ParamKeywordOnly
    \/ ParamPositionalOrKeyword
    \/ \E r \in FuncResults : CalleeDoes(r) /\ CallChecked(r)
    \/ CheckReturn
    \/ \E r \in FuncResults : CalleeDoes(r) /\ CallUnchecked(r)

SpecShapes == InitShapes /\ [][NextShapes]_vars

\* C16 as claimed: a call the wrapped callable does not accept does not
\* return from the wrapper, and a call it accepts reaches it with the
\* arguments given.
C16_SameShapes ==
    (probe.fn = "shape" /\ Ended) =>
        /\ ~probe.accepts => outcome.kind # "return"
        /\ (probe.accepts /\ invoked = 1) => (probe.callee = "func" /\ kwargs = probe.given)

\* C17: the ParamTypeError a wrapper call raises names the wrapped callable
\* and the parameter whose value was rejected, a checked parameter of the
\* callable passed that value; the ReturnTypeError names the wrapped callable.
NamesCallable(func_name, f) == func_name = [beartyped |-> f.name]
C17_LabelContainment ==
    /\ outcome.kind = "ParamTypeError" =>
        /\ NamesCallable(outcome.func_name, func)
        /\ \E p \in CheckedParams(func) :
            /\ func.params[p].name = outcome.arg_name
            /\ outcome.value \in IncomingValues(func, p, args, kwargs)
    /\ outcome.kind = "ReturnTypeError" =>
        /\ NamesCallable(outcome.func_name, func)
        /\ outcome.value = result
C17_Witness ==
    /\ Ended
    /\ outcome.kind = "ParamTypeError"
    /\ Len(func.params) = 2
    /\ outcome.arg_name = func.params[2].name
    /\ func.params[2].kind = KEYWORD_ONLY
    /\ IsCheckedParam(func.params[1])

\* C18: when the body assembled for the wrapper does not compile, decoration
\* raises the parse exception carrying the callable's human-readable name and
\* the whole body assembled, with the exception exec() raised as its cause,
\* and makes no wrapper; it raises that exception for no other reason.
EmittedBody(f) ==
    ReturnCode(f, ParamsCode(f, 1, <<[op |-> "SIGNATURE",
                                      func_beartyped_name |-> func_beartyped_name_of(f)]>>
                             ).func_body).func_body
HasShape(hint) ==
    \/ hint.tag \in {"class", "str"}
    \/ hint.tag = "tuple" /\ \A i \in 1..Len(hint.items) : hint.items[i].tag \in {"class", "str"}
Malformed(hint) ==
    \/ hint.tag = "str" /\ ~WellFormed(hint.name)
    \/ /\ hint.tag = "tuple"
       /\ \E i \in 1..Len(hint.items) :
            hint.items[i].tag = "str" /\ ~WellFormed(hint.items[i].name)
Unparseable(f) ==
    /\ ~HasReservedName(f)
    /\ \A p \in CheckedParams(f) : HasShape(f.params[p].annotation)
    /\ f.ret \in {Empty, NoneHint} \/ HasShape(f.ret)
    /\ \/ \E p \in CheckedParams(f) : Malformed(f.params[p].annotation)
       \/ f.ret \notin {Empty, NoneHint} /\ Malformed(f.ret)
C18_ParseError ==
    wrapper.status # "undecorated" =>
        /\ Unparseable(func) <=> wrapper.exc.exc = "BeartypeDecorParseException"
        /\ wrapper.exc.exc = "BeartypeDecorParseException" =>
            /\ wrapper.status = "raised"
            /\ wrapper.func_body = <<>>
            /\ ncalls = 0
            /\ NamesCallable(wrapper.exc.func_name, func)
            /\ wrapper.exc.func_body = EmittedBody(func)
            /\ Len(wrapper.exc.func_body) >= 2
            /\ wrapper.exc.__cause__ = [exc |-> "SyntaxError"]
C18_Witness ==
    /\ wrapper.status = "raised"
    /\ wrapper.exc.exc = "BeartypeDecorParseException"
    /\ Len(wrapper.exc.func_body) = 5
    /\ \E i \in 1..5 : wrapper.exc.func_body[i].op = "STR_REPLACE"

\* C19: the annotation of a positional-only or variadic keyword parameter is
\* not validated (decoration raises no invalid-hint exception for it, whatever
\* it is), no code is emitted for it (no prelude, no check, its entry in the
\* annotation mapping is never overwritten), and no call raises ParamTypeError
\* for it.
SkippedParams(f) ==
    {p \in 1..Len(f.params) :
        f.params[p].annotation # Empty /\ f.params[p].kind \in {POSITIONAL_ONLY, VAR_KEYWORD}}
SkippedNames(f) == {f.params[p].name : p \in SkippedParams(f)}
SnippetNames(s) ==
    (IF "arg_name" \in DOMAIN s THEN {s.arg_name} ELSE {})
        \cup (IF "annotation_expr" \in DOMAIN s THEN {s.annotation_expr} ELSE {})
        \cup (IF "arg_type_expr" \in DOMAIN s THEN {s.arg_type_expr} ELSE {})
C19_SkippedKinds ==
    /\ (wrapper.status = "raised" /\ wrapper.exc.exc = "BeartypeDecorHintValueException") =>
            wrapper.exc.label.arg_name \notin SkippedNames(func)
    /\ (wrapper.status # "undecorated" /\ ~HasReservedName(func)
            /\ (\A p \in CheckedParams(func) : IsValidHint(func.params[p].annotation))
            /\ (func.ret \in {Empty, NoneHint} \/ IsValidHint(func.ret)))
        => wrapper.status = "wrapper"
    /\ \A i \in 1..Len(wrapper.func_body) :
            SnippetNames(wrapper.func_body[i]) \cap SkippedNames(func) = {}
    /\ \A k \in SkippedNames(func) : rebinds[k] = 0 /\ annotations[k] = AnnotationOf(func, k)
    /\ outcome.kind = "ParamTypeError" => outcome.arg_name \notin SkippedNames(func)
C19_Witness ==
    /\ Ended /\ outcome.kind = "return" /\ invoked = 1
    /\ Len(func.params) = 2
    /\ func.params[1].kind = POSITIONAL_ONLY
    /\ func.params[1].annotation = Class("int")
    /\ Len(args) >= 1 /\ args[1] = "v_str"
    /\ func.params[2].kind = VAR_KEYWORD
    /\ func.params[2].annotation = Other("3")
    /\ DOMAIN kwargs # {}

\* ------------------------------------------------ wrapper calls from two threads
\* Two threads call the wrapper of one callable.  One thread runs at a time; the
\* interpreter may switch threads between any two statements that read or write
\* the shared __annotations__ mapping.  The names a call imports and the list a
\* tuple prelude fills are locals of that call's frame; __annotations__ is
\* shared.  The callables are those with a classname in an annotation, whose
\* wrapper writes __annotations__, and no parameter of a kind the decorator
\* ignores.  Before the concurrent calls, each call is run alone on the
\* annotations as decoration left them, and its outcome is recorded.
ThreadFuncs ==
    {f \in Funcs :
        /\ Len(f.params) <= 1
        /\ \A i \in 1..Len(f.params) : f.params[i].kind \notin _PARAM_KIND_IGNORABLE
        /\ beartype(f).status = "wrapper"
        /\ \E k \in AnnotationKeys(f) : ContainsName(AnnotationOf(f, k))}
ThreadInputs == {in \in CallInputs : Len(in[1]) + Cardinality(DOMAIN in[2]) <= 1}
NoInput == <<>>

\* The frame of the running call, and the frame of a call that has just begun.
Frame ==
    [pc |-> pc, args |-> args, kwargs |-> kwargs, idx |-> idx, locals_ |-> locals_,
     types |-> types, result |-> result, invoked |-> invoked, outcome |-> outcome,
     trace |-> trace, sub |-> probe.sub]
Entered(in) ==
    [pc |-> 2, args |-> in[1], kwargs |-> in[2], idx |-> 0, locals_ |-> <<>>,
     types |-> <<>>, result |-> NoResult, invoked |-> 0, outcome |-> NoOutcome,
     trace |-> <<>>, sub |-> 0]
Resume(fr) ==
    /\ pc' = fr.pc
    /\ args' = fr.args
    /\ kwargs' = fr.kwargs
    /\ idx' = fr.idx
    /\ locals_' = fr.locals_
    /\ types' = fr.types
    /\ result' = fr.result
    /\ invoked' = fr.invoked
    /\ outcome' = fr.outcome
    /\ trace' = fr.trace

InitThreads ==
    /\ func \in ThreadFuncs
    /\ annotations = InitAnnotations(func)
    /\ wrapper = Undecorated
    /\ pc = 0
    /\ args = <<>>
    /\ kwargs = <<>>
    /\ idx = 0
    /\ locals_ = <<>>
    /\ types = <<>>
    /\ result = NoResult
    /\ invoked = 0
    /\ outcome = NoOutcome
    /\ ncalls = 0
    /\ trace = <<>>
    /\ rebinds = [k \in AnnotationKeys(func) |-> 0]
    /\ \E r \in FuncResults :
        probe = [fn |-> "threads", stage |-> "alone", running |-> 1, behaviour |-> r,
                 inputs |-> <<NoInput, NoInput>>, alone |-> <<NoOutcome, NoOutcome>>,
                 parked |-> Entered(<<<<>>, <<>>>>), sub |-> 0]

\* A call run alone: thread probe.running calls the wrapper with (a, kw).
CallAlone(a, kw) ==
    /\ probe.fn = "threads"
    /\ probe.stage = "alone"
    /\ wrapper.status = "wrapper"
    /\ pc = 0
    /\ outcome = NoOutcome
    /\ probe.inputs[probe.running] = NoInput
    /\ Resume(Entered(<<a, kw>>))
    /\ probe' = [probe EXCEPT !.inputs[probe.running] = <<a, kw>>]
    /\ UNCHANGED <<func, annotations, wrapper, ncalls, rebinds>>

\* The call run alone has ended: its outcome is recorded and __annotations__ is
\* put back as decoration left it.  After the second one, both threads call.
EndAlone ==
    /\ probe.fn = "threads"
    /\ probe.stage = "alone"
    /\ pc = 0
    /\ outcome # NoOutcome
    /\ annotations' = InitAnnotations(func)
    /\ rebinds' = [k \in AnnotationKeys(func) |-> 0]
    /\ IF probe.running = 1 THEN
           /\ Resume([Entered(<<<<>>, <<>>>>) EXCEPT !.pc = 0])
           /\ probe' = [probe EXCEPT !.alone[1] = outcome, !.running = 2]
       ELSE
           /\ Resume(Entered(probe.inputs[1]))
           /\ probe' = [probe EXCEPT !.alone[2] = outcome, !.running = 1,
                                     !.stage = "together",
                                     !.parked = Entered(probe.inputs[2])]
    /\ UNCHANGED <<func, wrapper, ncalls>>

\* The interpreter switches to the other thread, whose call has not ended.
Switch ==
    /\ probe.fn = "threads"
    /\ probe.stage = "together"
    /\ probe.parked.pc > 0
    /\ Resume(probe.parked)
    /\ probe' = [probe EXCEPT !.parked = Frame, !.running = 3 - probe.running,
                              !.sub = probe.parked.sub]
    /\ UNCHANGED <<func, annotations, wrapper, ncalls, rebinds>>

\* The classname prelude in two steps, a switch being possible between them:
\* the test of the entry with the import and the validation of what the name
\* denotes, then the assignment to the entry.
StrReplaceTest ==
    /\ Running("STR_REPLACE")
    /\ probe.fn = "threads"
    /\ probe.sub = 0
    /\ LET key == snippet.annotation_expr
           imports == snippet.annotation_type_import_code
           bound == IF imports = <<>> THEN locals_
                    ELSE Bind(locals_, imports[1].annotation_type_basename,
                              ImportFrom(imports[1].annotation_type_module_name,
                                         imports[1].annotation_type_basename))
           obj == Lookup(bound, snippet.annotation_type_basename)
       IN /\ trace' = Append(trace, Event("STR_REPLACE", key, -1))
          /\ IF ~IsStr(annotations[key]) THEN
                 Continue /\ UNCHANGED <<locals_, probe>>
             ELSE IF _check_type_annotation(obj, snippet.annotation_label, FALSE) # NoException THEN
                 Raise(ForwardRefError(snippet.annotation_label))
                 /\ UNCHANGED <<locals_, probe>>
             ELSE
                 /\ pc' = pc
                 /\ outcome' = outcome
                 /\ locals_' = bound
                 /\ probe' = [probe EXCEPT !.sub = 1]
    /\ UNCHANGED <<func, annotations, wrapper, args, kwargs, idx, types, result, invoked, ncalls,
                   rebinds>>
StrReplaceRebind ==
    /\ Running("STR_REPLACE")
    /\ probe.fn = "threads"
    /\ probe.sub = 1
    /\ LET key == snippet.annotation_expr
       IN /\ annotations' = [annotations EXCEPT
                                ![key] = Lookup(locals_, snippet.annotation_type_basename)]
          /\ rebinds' = [rebinds EXCEPT ![key] = @ + 1]
    /\ Continue
    /\ probe' = [probe EXCEPT !.sub = 0]
    /\ UNCHANGED <<func, wrapper, args, kwargs, idx, locals_, types, result, invoked, ncalls,
                   trace>>

\* The wrapped callable does the same in every call of one experiment.
ThreadCallee(r) == probe.fn = "threads" /\ r = probe.behaviour

NextThreads ==
    \/ Decorate
    \/ \E in \in ThreadInputs : CallAlone(in[1], in[2])
    \/ EndAlone
    \/ Switch
    \/ StrReplaceTest
    \/ StrReplaceRebind
    \/ TupleStrTest
    \/ TupleStrImport
    \/ TupleStrAppend
    \/ TupleClassAppend
    \/ TupleReplace
    \/ ParamVariadicPositional
    \/ ParamKeywordOnly
    \/ ParamPositionalOrKeyword
    \/ \E r \in FuncResults : ThreadCallee(r) /\ CallChecked(r)
    \/ CheckReturn
    \/ \E r \in FuncResults : ThreadCallee(r) /\ CallUnchecked(r)

SpecThreads == InitThreads /\ [][NextThreads]_vars

\* The running call's next statement is an instance check, against CheckKey.
AboutToCheck ==
    /\ pc > 0
    /\ \/ snippet.op \in {"PARAM_VARIADIC_POSITIONAL", "PARAM_KEYWORD_ONLY",
                          "PARAM_POSITIONAL_OR_KEYWORD"}
       \/ snippet.op = "CALL_CHECKED" /\ invoked = 1
CheckKey == IF snippet.op = "CALL_CHECKED" THEN snippet.return_type ELSE snippet.arg_type_expr
\* The entry holds what the annotation denotes: no classname is left in it, and
\* a tuple has all the items of the annotation.
FullyResolved(entry, annotation) ==
    /\ ~ContainsName(entry)
    /\ IsTuple(annotation) =>
          IsTuple(entry) /\ Len(entry.items) = Len(annotation.items)
    /\ ExpectedTypes(entry) = ExpectedTypes(annotation)
ThreadEnded(fr) == fr.pc = 0 /\ fr.outcome # NoOutcome

\* C20: under every interleaving of two concurrent wrapper calls, the
\* interleavings where both calls run the classname prelude and both overwrite
\* the same __annotations__ entry included, each call ends with the outcome it
\* has when run alone, and whenever a call is about to do an instance check,
\* the entry it checks against holds neither a classname nor a partly rebuilt
\* tuple.
C20_ThreadSafe ==
    /\ (probe.stage = "together" /\ ThreadEnded(Frame)) =>
          outcome = probe.alone[probe.running]
    /\ (probe.stage = "together" /\ ThreadEnded(probe.parked)) =>
          probe.parked.outcome = probe.alone[3 - probe.running]
    /\ AboutToCheck => FullyResolved(annotations[CheckKey], AnnotationOf(func, CheckKey))
\* Both concurrent calls have ended, each one having overwritten the same entry,
\* the one that ended last having passed its checks.
C20_Witness ==
    /\ probe.stage = "together"
    /\ ThreadEnded(Frame)
    /\ ThreadEnded(probe.parked)
    /\ outcome.kind = "return"
    /\ \E k \in DOMAIN rebinds : rebinds[k] = 2

\* ------------------------------------------------ beartype.vale.IsAttr[...]
\* A string is the sequence of its characters.
MaxSubscript == 3
IdentifierStart == {"a", "b", "x", "_"}
IdentifierContinue == IdentifierStart \cup {"1"}
AttrNames == {<<>>, <<"x">>, <<"x", "1">>, <<"1", "x">>, <<"a", ".", "b">>, <<".">>}
StrObject(chars) == [tag |-> "strobj", chars |-> chars]
IntObject == [tag |-> "intobj"]
TupleObject(items) == [tag |-> "tupleobj", items |-> items]

\* str.isidentifier() and the test "'.' in attr_name".
isidentifier(chars) ==
    /\ Len(chars) > 0
    /\ chars[1] \in IdentifierStart
    /\ \A i \in 2..Len(chars) : chars[i] \in IdentifierContinue
contains_dot(chars) == \E i \in 1..Len(chars) : chars[i] = "."

\* A format string is the sequence of its parts: literal text, a replacement
\* field {name}, and a doubled-brace field {{name}} that str.format() turns into
\* the text "{name}", a replacement field of the string it returns.
Lit(text) == [tok |-> "lit", name |-> text]
Field(name) == [tok |-> "field", name |-> name]
Esc(name) == [tok |-> "esc", name |-> name]
RECURSIVE FormatParts(_, _, _)
FormatParts(template, kw, i) ==
    IF i > Len(template) THEN <<>>
    ELSE (CASE template[i].tok = "field" -> kw[template[i].name]
            [] template[i].tok = "esc" -> <<Field(template[i].name)>>
            [] OTHER -> <<template[i]>>)
         \o FormatParts(template, kw, i + 1)
str_format(template, kw) ==
    LET missing == {i \in 1..Len(template) :
                        template[i].tok = "field" /\ template[i].name \notin DOMAIN kw}
    IN IF missing # {}
       THEN [exc |-> "KeyError",
             message |-> template[CHOOSE i \in missing : \A j \in missing : i <= j].name]
       ELSE [exc |-> "none", text |-> FormatParts(template, kw, 1)]

VALE_CODE_CHECK_ISATTR ==
    <<Lit("("), Esc("index"), Field("obj_attr_name"), Lit(":= getattr("),
      Esc("index"), Esc("obj"), Lit(","), Field("repr(attr_name)"), Lit(","),
      Field("sentinel_name"), Esc("index"), Lit(") is not"), Field("sentinel_name"),
      Lit("and"), Esc("index"), Field("obj_attr_value_is_valid_expr"),
      Esc("index"), Lit(")")>>

\* A validator made by subscripting another beartype.vale class: its code is a
\* format string over {obj} and {index}.
InnerValidator ==
    [tag |-> "validator", repr |-> "Is[...]",
     is_valid_code |-> <<Lit("("), Field("index"), Lit("inner("), Field("obj"), Lit("))")>>,
     is_valid_code_locals |-> {"__beartype_inner"}]

BeartypeValeSubscriptionException(message) ==
    [exc |-> "BeartypeValeSubscriptionException", message |-> message]
AttributeErrorRaised(name) == [exc |-> "AttributeError", message |-> name]
Created(validator) == [exc |-> "none", validator |-> validator]

\* IsAttr.__class_getitem__(cls, args): the validator it returns, or the
\* exception it raises.
IsAttr_class_getitem(args_) ==
    IF args_.tag # "tupleobj" THEN
        BeartypeValeSubscriptionException("subscripted by one non-tuple argument")
    ELSE IF Len(args_.items) # 2 THEN
        IF args_.items # <<>>
        THEN BeartypeValeSubscriptionException("subscripted by three or more arguments")
        ELSE BeartypeValeSubscriptionException("subscripted by empty tuple")
    ELSE
        LET attr_name == args_.items[1]
            attr_validator == args_.items[2]
        IN IF attr_name.tag # "strobj" THEN
               BeartypeValeSubscriptionException("first argument not string")
           ELSE IF attr_name.chars = <<>> THEN
               BeartypeValeSubscriptionException("first argument empty")
           ELSE IF ~contains_dot(attr_name.chars) THEN
               IF ~isidentifier(attr_name.chars) THEN
                   BeartypeValeSubscriptionException("first argument syntactically invalid")
               ELSE IF attr_validator.tag # "validator" THEN
                   AttributeErrorRaised("_is_valid_code_locals")
               ELSE
                   LET sentinel_name == "__beartype_sentinel"
                       is_valid_code_locals ==
                           {sentinel_name} \cup attr_validator.is_valid_code_locals
                       obj_attr_name == <<Lit("__beartype_isattr_"), Lit(attr_name.chars)>>
                       obj_attr_value_is_valid_expr ==
                           str_format(attr_validator.is_valid_code,
                                      [obj |-> obj_attr_name,
                                       index |-> <<Field("index"), Lit("    ")>>])
                       is_valid_code ==
                           str_format(VALE_CODE_CHECK_ISATTR,
                                      [obj_attr_name |-> obj_attr_name,
                                       obj_attr_value_is_valid_expr |->
                                            obj_attr_value_is_valid_expr.text,
                                       sentinel_name |-> <<Lit(sentinel_name)>>])
                   IN IF obj_attr_value_is_valid_expr.exc # "none"
                      THEN obj_attr_value_is_valid_expr
                      ELSE IF is_valid_code.exc # "none" THEN is_valid_code
                      ELSE Created([tag |-> "validator", repr |-> "IsAttr[...]",
                                    attr_name |-> attr_name.chars,
                                    attr_validator |-> attr_validator.repr,
                                    is_valid_code |-> is_valid_code.text,
                                    is_valid_code_locals |-> is_valid_code_locals])
           ELSE
               BeartypeValeSubscriptionException("first argument not unqualified Python identifier")

\* What IsAttr may be subscripted by: one object that is no tuple, or a tuple
\* of up to MaxSubscript objects.
SubscriptItems == {StrObject(n) : n \in AttrNames} \cup {IntObject, InnerValidator}
SubscriptArgs ==
    SubscriptItems
        \cup {TupleObject(items) :
                items \in UNION {[1..n -> SubscriptItems] : n \in 0..MaxSubscript}}
NotSubscripted == [exc |-> "not_subscripted"]

InitIsAttr ==
    /\ func \in {f \in Funcs : f.params = <<>> /\ f.ret = Empty}
    /\ annotations = InitAnnotations(func)
    /\ wrapper = Undecorated
    /\ pc = 0
    /\ args = <<>>
    /\ kwargs = <<>>
    /\ idx = 0
    /\ locals_ = <<>>
    /\ types = <<>>
    /\ result = NoResult
    /\ invoked = 0
    /\ outcome = NoOutcome
    /\ ncalls = 0
    /\ trace = <<>>
    /\ rebinds = [k \in AnnotationKeys(func) |-> 0]
    /\ \E a \in SubscriptArgs :
        probe = [fn |-> "IsAttr", args |-> a, result |-> NotSubscripted]

Subscript ==
    /\ probe.fn = "IsAttr"
    /\ probe.result = NotSubscripted
    /\ probe' = [probe EXCEPT !.result = IsAttr_class_getitem(probe.args)]
    /\ UNCHANGED <<func, annotations, wrapper, pc, args, kwargs, idx, locals_, types, result,
                   invoked, outcome, ncalls, trace, rebinds>>

SpecIsAttr == InitIsAttr /\ [][Subscript]_vars

\* The subscription IsAttr[name, validator] with name a string.
NamedSubscription ==
    /\ probe.args.tag = "tupleobj"
    /\ Len(probe.args.items) = 2
    /\ probe.args.items[1].tag = "strobj"
    /\ probe.args.items[2].tag = "validator"
Subscripted == probe.fn = "IsAttr" /\ probe.result # NotSubscripted

\* C21 as claimed: IsAttr subscripted by a bare identifier and a validator
\* raises no error and makes a validator.
C21_BareNameCreated ==
    (Subscripted /\ NamedSubscription /\ isidentifier(probe.args.items[1].chars))
        => probe.result.exc = "none"

\* C22 as claimed: IsAttr subscripted by a dotted attribute path and a
\* validator raises no error.
C22_DottedNameAccepted ==
    (Subscripted /\ NamedSubscription /\ probe.args.items[1].chars = <<"a", ".", "b">>)
        => probe.result.exc = "none"

\* C23 as claimed: a malformed subscription raises
\* BeartypeValeSubscriptionException with a message naming the malformation; a
\* subscription by one argument is not reported as three or more arguments.
C23_MalformedReported ==
    Subscripted =>
        /\ (probe.args.tag # "tupleobj" \/ Len(probe.args.items) # 2
                \/ probe.args.items[1].tag # "strobj"
                \/ ~isidentifier(probe.args.items[1].chars))
             => probe.result.exc = "BeartypeValeSubscriptionException"
        /\ (probe.args.tag = "tupleobj" /\ Len(probe.args.items) = 1)
             => probe.result.message # "subscripted by three or more arguments"

\* ------------------------------------------------ order of the steps of a call
PreludeOps ==
    {"STR_REPLACE", "TUPLE_STR_TEST", "TUPLE_STR_IMPORT", "TUPLE_STR_APPEND",
     "TUPLE_CLASS_APPEND", "TUPLE_REPLACE"}
ParamCheckOps ==
    {"PARAM_VARIADIC_POSITIONAL", "PARAM_KEYWORD_ONLY", "PARAM_POSITIONAL_OR_KEYWORD"}
Steps == 1..Len(trace)
IsPrelude(i) == trace[i].op \in PreludeOps
IsPreludeOf(i, key) == trace[i].op \in {"STR_REPLACE", "TUPLE_STR_TEST"} /\ trace[i].key = key
IsParamCheck(i) == trace[i].op \in ParamCheckOps
IsCallStep(i) == trace[i].op = "CALL"
IsReturnCheck(i) == trace[i].op = "RETURN_CHECK"

RebuiltFrom(entry, annotation) ==
    /\ IsTuple(entry)
    /\ Len(entry.items) = Len(annotation.items)
    /\ \A i \in 1..Len(annotation.items) :
        IF IsStr(annotation.items[i])
        THEN /\ ClassType(entry.items[i])
             /\ {entry.items[i].name[1]} = Denotes(annotation.items[i].name)
        ELSE entry.items[i] = annotation.items[i]
TuplePreludeFor(k) ==
    {i \in 1..Len(wrapper.func_body) :
        /\ wrapper.func_body[i].op \in {"TUPLE_STR_TEST", "TUPLE_CLASS_APPEND", "TUPLE_REPLACE"}
        /\ wrapper.func_body[i].annotation_expr = k}

\* C25: the entry of a tuple annotation with a classname in it is rewritten once,
\* by the prelude of the first call that reaches it, to a tuple of the same
\* length and order with every classname replaced by the class it denotes and
\* every class kept, so that no string is left in it, and a call that returns
\* has done so; a tuple annotation without classname has no prelude and its
\* entry is never rewritten.
C25_TupleRebuilt ==
    \A k \in DOMAIN annotations :
        LET annotation == AnnotationOf(func, k)
        IN IsTuple(annotation) =>
            IF ContainsName(annotation) THEN
                /\ rebinds[k] = 0 => annotations[k] = annotation
                /\ rebinds[k] >= 1 =>
                      /\ rebinds[k] = 1
                      /\ RebuiltFrom(annotations[k], annotation)
                      /\ ~ContainsName(annotations[k])
                /\ (Ended /\ outcome.kind = "return" /\ k \in CheckedKeys) => rebinds[k] = 1
                /\ (wrapper.status = "wrapper" /\ k \in CheckedKeys) => TuplePreludeFor(k) # {}
            ELSE
                /\ annotations[k] = annotation
                /\ rebinds[k] = 0
                /\ wrapper.status = "wrapper" => TuplePreludeFor(k) = {}
\* The second call has returned, the first one having rebuilt the tuple of a
\* parameter that was passed.
C25_Witness ==
    /\ ncalls = 2 /\ Ended /\ outcome.kind = "return"
    /\ \E p \in CheckedParams(func) :
        /\ IsTuple(func.params[p].annotation)
        /\ ContainsName(func.params[p].annotation)
        /\ rebinds[func.params[p].name] = 1
        /\ annotations[func.params[p].name] # func.params[p].annotation
        /\ IncomingValues(func, p, args, kwargs) # {}

\* ------------------------------------------------ deep ignorability of hints
\* A hint is its sign, its origin (what repr() or the type origin shows of it)
\* and its child hints.
MaxNesting == 2
HintSignGeneric == "Generic"
HintSignNewType == "NewType"
HINT_SIGNS_UNION == {"Union", "Optional"}
HINTS_REPR_IGNORABLE_SHALLOW == {"object", "typing.Any"}
LeafHint(sign, origin) == [sign |-> sign, origin |-> origin, args |-> <<>>]
NoneTypeHint == LeafHint("class", "NoneType")
LeafHints ==
    {LeafHint("class", "object"), LeafHint("Any", "typing.Any"), LeafHint("class", "int"),
     NoneTypeHint, LeafHint(HintSignGeneric, "Generic"), LeafHint(HintSignGeneric, "list")}
NewTypeHint(child) == [sign |-> HintSignNewType, origin |-> "NewType", args |-> <<child>>]
UnionHint(a, b) == [sign |-> "Union", origin |-> "Union", args |-> <<a, b>>]
OptionalHint(a) == [sign |-> "Optional", origin |-> "Union", args |-> <<a, NoneTypeHint>>]
RECURSIVE PepHints(_)
PepHints(depth) ==
    IF depth = 0 THEN LeafHints
    ELSE LET below == PepHints(depth - 1)
         IN LeafHints
            \cup {NewTypeHint(h) : h \in below}
            \cup {OptionalHint(h) : h \in below}
            \cup {UnionHint(pair[1], pair[2]) : pair \in below \X below}

\* The calls in progress: is_hint_ignorable(hint) for the hint of each frame,
\* child being the index of the child hint whose result the frame waits for.
HintFrame(hint, child) == [hint |-> hint, child |-> child]
NotReturned == "pending"

\* Mutant: all() in place of any(): the iteration stops at the first child
\* that is not ignorable.
any_stops_at_false(child_result) == child_result = "False"
\* any(): the iteration stops at the first true item.
any_stops_at(child_result) == child_result = "True"

InitIgnorable ==
    /\ func \in {f \in Funcs : f.params = <<>> /\ f.ret = Empty}
    /\ annotations = InitAnnotations(func)
    /\ wrapper = Undecorated
    /\ pc = 0
    /\ args = <<>>
    /\ kwargs = <<>>
    /\ idx = 0
    /\ locals_ = <<>>
    /\ types = <<>>
    /\ result = NoResult
    /\ invoked = 0
    /\ outcome = NoOutcome
    /\ ncalls = 0
    /\ trace = <<>>
    /\ rebinds = [k \in AnnotationKeys(func) |-> 0]
    /\ \E h \in PepHints(MaxNesting) :
        probe = [fn |-> "ignorable", hint |-> h, stack |-> <<HintFrame(h, 0)>>,
                 ret |-> NotReturned, steps |-> 0]

OnlyProbe ==
    UNCHANGED <<func, annotations, wrapper, pc, args, kwargs, idx, locals_, types, result,
                invoked, outcome, ncalls, trace, rebinds>>
Top == probe.stack[Len(probe.stack)]
Entering == probe.fn = "ignorable" /\ probe.stack # <<>> /\ probe.ret = NotReturned /\ Top.child = 0
Returning == probe.fn = "ignorable" /\ probe.stack # <<>> /\ probe.ret # NotReturned
Pop(ret) ==
    probe' = [probe EXCEPT !.stack = SubSeq(@, 1, Len(@) - 1), !.ret = ret, !.steps = @ + 1]
Descend(child) ==
    probe' = [probe EXCEPT !.stack = Append([@ EXCEPT ![Len(@)].child = child],
                                            HintFrame(Top.hint.args[child], 0)),
                           !.ret = NotReturned, !.steps = @ + 1]

\* is_hint_ignorable(): a hint whose repr() is in the shallow set is ignorable.
ReturnShallow ==
    /\ Entering
    /\ Top.hint.origin \in HINTS_REPR_IGNORABLE_SHALLOW
    /\ Pop("True")
    /\ OnlyProbe
\* A generic is ignorable when its origin is typing.Generic; for any other
\* generic the tester returns None, which its caller takes as unignorable.
ReturnGeneric ==
    /\ Entering
    /\ Top.hint.origin \notin HINTS_REPR_IGNORABLE_SHALLOW
    /\ Top.hint.sign = HintSignGeneric
    /\ Pop(IF Top.hint.origin = "Generic" THEN "True" ELSE "False")
    /\ OnlyProbe
\* A new type: is_hint_ignorable() of the class it aliases.
DescendNewType ==
    /\ Entering
    /\ Top.hint.origin \notin HINTS_REPR_IGNORABLE_SHALLOW
    /\ Top.hint.sign = HintSignNewType
    /\ Descend(1)
    /\ OnlyProbe
NewTypeReturns ==
    /\ Returning
    /\ Top.hint.sign = HintSignNewType
    /\ Pop(probe.ret)
    /\ OnlyProbe
\* A union: any(is_hint_ignorable(hint_child) for hint_child in args).
DescendUnion ==
    /\ Entering
    /\ Top.hint.origin \notin HINTS_REPR_IGNORABLE_SHALLOW
    /\ Top.hint.sign \in HINT_SIGNS_UNION
    /\ IF Top.hint.args = <<>> THEN Pop("False") ELSE Descend(1)
    /\ OnlyProbe
UnionChildReturns ==
    /\ Returning
    /\ Top.hint.sign \in HINT_SIGNS_UNION
    /\ IF any_stops_at(probe.ret) THEN Pop("True")
       ELSE IF Top.child < Len(Top.hint.args) THEN Descend(Top.child + 1)
       ELSE Pop("False")
    /\ OnlyProbe
\* Any other hint: the tester returns None, which its caller takes as
\* unignorable.
ReturnUnignorable ==
    /\ Entering
    /\ Top.hint.origin \notin HINTS_REPR_IGNORABLE_SHALLOW
    /\ Top.hint.sign \notin {HintSignGeneric, HintSignNewType} \cup HINT_SIGNS_UNION
    /\ Pop("False")
    /\ OnlyProbe

NextIgnorable ==
    \/ ReturnShallow
    \/ ReturnGeneric
    \/ DescendNewType
    \/ NewTypeReturns
    \/ DescendUnion
    \/ UnionChildReturns
    \/ ReturnUnignorable

\* The analysis is one sequential computation: a step that can be taken is taken.
SpecIgnorable == InitIgnorable /\ [][NextIgnorable]_vars /\ WF_vars(NextIgnorable)

\* The rule as stated: shallow set, Generic origin, new type over an ignorable
\* alias, union with an ignorable child.
RECURSIVE DeeplyIgnorable(_)
DeeplyIgnorable(h) ==
    \/ h.origin \in HINTS_REPR_IGNORABLE_SHALLOW
    \/ h.sign = HintSignGeneric /\ h.origin = "Generic"
    \/ h.sign = HintSignNewType /\ DeeplyIgnorable(h.args[1])
    \/ h.sign \in HINT_SIGNS_UNION /\ \E i \in 1..Len(h.args) : DeeplyIgnorable(h.args[i])
RECURSIVE HintSize(_)
HintSize(h) ==
    1 + (IF h.args = <<>> THEN 0
         ELSE IF Len(h.args) = 1 THEN HintSize(h.args[1])
         ELSE HintSize(h.args[1]) + HintSize(h.args[2]))
Analysed == probe.fn = "ignorable" /\ probe.stack = <<>>

\* C26: the analysis of a union answers "ignorable" exactly when at least one
\* of its child hints is ignorable, each child judged by the same rules, and
\* the analysis of every hint ends, after at most two steps per hint nested
\* in it.
C26_UnionIgnorable ==
    /\ [](Analysed =>
            /\ probe.ret \in {"True", "False"}
            /\ probe.hint.sign \in HINT_SIGNS_UNION =>
                  (probe.ret = "True" <=>
                      \E i \in 1..Len(probe.hint.args) : DeeplyIgnorable(probe.hint.args[i])))
    /\ [](probe.steps <= 2 * HintSize(probe.hint))
    /\ <>Analysed
\* A union found ignorable through its second child, itself not a leaf, the
\* first child being a union of unignorable hints.
C26_Witness ==
    /\ Analysed
    /\ probe.hint.sign = "Union"
    /\ probe.ret = "True"
    /\ probe.hint.args[1].sign = "Union"
    /\ ~DeeplyIgnorable(probe.hint.args[1])
    /\ probe.hint.args[2].sign \in {HintSignNewType, "Optional"}

\* ------------------------------------------------ unerased bases of a generic
\* A hint is a class with its method resolution order and, when the class
\* statement erased pseudo-superclasses, the __orig_bases__ it recorded; or an
\* object that is no class and reduces to none.
MaxMro == 5
MroClasses == {"Hint", "A", "B", "Generic", "object"}
Mros ==
    {mro \in UNION {[1..n -> MroClasses] : n \in 1..MaxMro} :
        \A i, j \in 1..Len(mro) : i # j => mro[i] # mro[j]}
NoOrigBases == <<"None">>
OrigBases == {NoOrigBases, <<"Generic[T]">>, <<"List[T]", "A">>}
GenericHints ==
    {[is_class |-> TRUE, mro |-> mro, orig_bases |-> ob] : mro \in Mros, ob \in OrigBases}
        \cup {[is_class |-> FALSE, mro |-> <<>>, orig_bases |-> NoOrigBases]}

\* is_type_subclass(hint, Generic): the hint is a class with Generic in its MRO.
is_hint_pep484_generic(hint) ==
    hint.is_class /\ \E i \in 1..Len(hint.mro) : hint.mro[i] = "Generic"
BeartypeDecorHintPep484Exception(message) ==
    [exc |-> "BeartypeDecorHintPep484Exception", message |-> message, bases |-> <<>>]
ReturnedBases(bases) == [exc |-> "none", message |-> "", bases |-> bases]

\* Mutant: only the generic itself and object stripped.
mro_stripped_keeping_generic(hint_bases) == SubSeq(hint_bases, 2, Len(hint_bases) - 1)
\* hint_bases[1:-2]
mro_stripped(hint_bases) == SubSeq(hint_bases, 2, Len(hint_bases) - 2)

get_hint_pep484_generic_bases_unerased(hint) ==
    IF ~is_hint_pep484_generic(hint) THEN
        BeartypeDecorHintPep484Exception("neither PEP 484 generic nor PEP 544 protocol")
    ELSE IF hint.orig_bases # NoOrigBases THEN ReturnedBases(hint.orig_bases)
    ELSE
        LET hint_bases == hint.mro
        IN IF Len(hint_bases) < 4 THEN
               BeartypeDecorHintPep484Exception("lists less than four classes")
           ELSE IF hint_bases[1] # "Hint" THEN
               BeartypeDecorHintPep484Exception("first item not hint")
           ELSE IF hint_bases[Len(hint_bases) - 1] # "Generic" THEN
               BeartypeDecorHintPep484Exception("second-to-last item not Generic")
           ELSE IF hint_bases[Len(hint_bases)] # "object" THEN
               BeartypeDecorHintPep484Exception("last item not object")
           ELSE ReturnedBases(mro_stripped(hint_bases))

NotCalled == [exc |-> "not_called", message |-> "", bases |-> <<>>]
InitGenericBases ==
    /\ func \in {f \in Funcs : f.params = <<>> /\ f.ret = Empty}
    /\ annotations = InitAnnotations(func)
    /\ wrapper = Undecorated
    /\ pc = 0
    /\ args = <<>>
    /\ kwargs = <<>>
    /\ idx = 0
    /\ locals_ = <<>>
    /\ types = <<>>
    /\ result = NoResult
    /\ invoked = 0
    /\ outcome = NoOutcome
    /\ ncalls = 0
    /\ trace = <<>>
    /\ rebinds = [k \in AnnotationKeys(func) |-> 0]
    /\ \E h \in GenericHints :
        probe = [fn |-> "generic_bases", hint |-> h, result |-> NotCalled]

GetGenericBases ==
    /\ probe.fn = "generic_bases"
    /\ probe.result = NotCalled
    /\ probe' = [probe EXCEPT !.result = get_hint_pep484_generic_bases_unerased(probe.hint)]
    /\ OnlyProbe

SpecGenericBases == InitGenericBases /\ [][GetGenericBases]_vars

BasesGot == probe.fn = "generic_bases" /\ probe.result # NotCalled
MroAsExpected(mro) ==
    /\ Len(mro) >= 4
    /\ mro[1] = "Hint"
    /\ mro[Len(mro) - 1] = "Generic"
    /\ mro[Len(mro)] = "object"
Items(seq) == {seq[i] : i \in 1..Len(seq)}

\* C27: the getter raises BeartypeDecorHintPep484Exception for a hint that is
\* no generic; for a generic it returns __orig_bases__ when defined, and
\* otherwise raises when the MRO has fewer than four classes, does not begin
\* with the hint, or does not end with Generic and object, and else returns the
\* MRO without the hint, Generic and object, in order; whatever it returns has
\* at least one item.
C27_GenericBases ==
    BasesGot =>
        LET hint == probe.hint
            got == probe.result
            raised == got.exc = "BeartypeDecorHintPep484Exception"
        IN /\ got.exc \in {"none", "BeartypeDecorHintPep484Exception"}
           /\ ~is_hint_pep484_generic(hint) => raised
           /\ (is_hint_pep484_generic(hint) /\ hint.orig_bases # NoOrigBases) =>
                 ~raised /\ got.bases = hint.orig_bases
           /\ (is_hint_pep484_generic(hint) /\ hint.orig_bases = NoOrigBases) =>
                 IF MroAsExpected(hint.mro)
                 THEN /\ ~raised
                      /\ Items(got.bases) = Items(hint.mro) \ {"Hint", "Generic", "object"}
                      /\ Len(got.bases) = Len(hint.mro) - 3
                      /\ \A i \in 1..Len(got.bases) : got.bases[i] = hint.mro[i + 1]
                 ELSE raised
           /\ ~raised => Len(got.bases) >= 1
\* The MRO of a generic without __orig_bases__ stripped to two superclasses.
C27_Witness ==
    /\ BasesGot
    /\ probe.hint.orig_bases = NoOrigBases
    /\ probe.result.exc = "none"
    /\ Len(probe.result.bases) = 2

\* ------------------------------------------------ what decoration and calls change
\* The entries a prelude may overwrite: those of checked parameters and of a
\* checked return whose annotation is a classname or a tuple with a classname.
ResolvedKeys == {k \in CheckedKeys : ContainsName(AnnotationOf(func, k))}

\* C28: decoration changes neither the callable nor its __annotations__; a
\* wrapper call changes neither the callable nor the wrapper, and in
\* __annotations__ only entries whose annotation is a classname or a tuple with
\* a classname, of a checked parameter or the checked return: every other entry
\* (a class, a tuple of classes, the annotation of a skipped parameter) stays
\* what the definition made it, and no entry is added or removed.
C28_FrameEffect ==
    /\ [][func' = func]_vars
    /\ [][wrapper' # wrapper =>
            /\ wrapper.status = "undecorated"
            /\ annotations' = annotations
            /\ pc = 0 /\ pc' = 0]_vars
    /\ [][annotations' # annotations =>
            /\ pc > 0
            /\ wrapper' = wrapper
            /\ DOMAIN annotations' = DOMAIN annotations
            /\ \A k \in DOMAIN annotations :
                  annotations'[k] # annotations[k] => k \in ResolvedKeys]_vars
    /\ [](DOMAIN annotations = AnnotationKeys(func))
    /\ [](\A k \in DOMAIN annotations :
            k \notin ResolvedKeys => annotations[k] = AnnotationOf(func, k))
    /\ []((Ended /\ outcome.kind = "return") =>
            \A k \in ResolvedKeys : annotations[k] # AnnotationOf(func, k))
\* A call has returned that overwrote the entry of one annotation and left the
\* entry of another, a class, as it was.
C28_Witness ==
    /\ Ended /\ outcome.kind = "return"
    /\ \E k, j \in DOMAIN annotations :
        /\ k \in ResolvedKeys
        /\ annotations[k] # AnnotationOf(func, k)
        /\ j \notin ResolvedKeys
        /\ ClassType(AnnotationOf(func, j))
        /\ annotations[j] = AnnotationOf(func, j)

\* ------------------------------------------------ the return prelude and the call
CallSteps == {i \in Steps : IsCallStep(i)}

\* C29: the prelude of the return annotation runs after every parameter check
\* and before the wrapped callable is called, so a call whose return annotation
\* names no class ends in an error with the callable never invoked; a
\* ReturnTypeError is raised only when the callable has been invoked exactly
\* once and has returned a value.
C29_ReturnPreludeBeforeCall ==
    /\ \A i, j \in Steps :
        /\ (IsPreludeOf(i, "return") /\ IsCallStep(j)) => i < j
        /\ (IsParamCheck(i) /\ IsPreludeOf(j, "return")) => i < j
    /\ (IsReturnChecked(func.ret) /\ ~Resolvable(func.ret)) =>
          /\ invoked = 0
          /\ CallSteps = {}
          /\ Ended => outcome.kind \in {"ForwardRefError", "ParamTypeError"}
    /\ (IsReturnChecked(func.ret) /\ ContainsName(func.ret) /\ invoked > 0) =>
          \E i \in Steps : IsPreludeOf(i, "return")
    /\ outcome.kind = "ReturnTypeError" =>
          /\ invoked = 1
          /\ Cardinality(CallSteps) = 1
          /\ result \in Values
          /\ outcome.value = result
\* A call that passed the check of a parameter and ended at the prelude of a
\* return annotation naming no class, the callable not invoked.
C29_Witness ==
    /\ Ended
    /\ outcome.kind = "ForwardRefError"
    /\ IsStr(func.ret) /\ ~Resolvable(func.ret)
    /\ invoked = 0
    /\ \E i \in Steps : IsParamCheck(i)

\* ------------------------------------------------ string annotations of any content
\* Callables of one parameter whose annotations are strings, alone or as a
\* tuple item: names of classes, names of no class, the empty string, strings
\* that are no identifier and a dotted name with an empty last part.
NameHints ==
    {Str(<<"">>), Str(<<"1x">>), Str(<<"mypkg", "">>), Str(<<"int">>), Str(<<"nomod", "X">>),
     Str(<<"mypkg", "MyType">>), Str(<<"mypkg", "CONST">>),
     Tuple(<<Class("int"), Str(<<"">>)>>), Tuple(<<Str(<<"1x">>), Class("int")>>),
     Tuple(<<Class("int"), Str(<<"nomod", "X">>)>>),
     Tuple(<<Class("int"), Str(<<"mypkg", "MyType">>)>>)}
NameFuncs ==
    {[name |-> "f", params |-> <<[name |-> "a", kind |-> k, annotation |-> h]>>, ret |-> r] :
        k \in {POSITIONAL_OR_KEYWORD, VAR_POSITIONAL, KEYWORD_ONLY},
        h \in NameHints, r \in {Empty} \cup NameHints}

InitNames ==
    /\ func \in NameFuncs
    /\ annotations = InitAnnotations(func)
    /\ wrapper = Undecorated
    /\ pc = 0
    /\ args = <<>>
    /\ kwargs = <<>>
    /\ idx = 0
    /\ locals_ = <<>>
    /\ types = <<>>
    /\ result = NoResult
    /\ invoked = 0
    /\ outcome = NoOutcome
    /\ ncalls = 0
    /\ trace = <<>>
    /\ rebinds = [k \in AnnotationKeys(func) |-> 0]
    /\ probe = NoProbe

SpecNames == InitNames /\ [][Next]_vars

MalformedAnnotation(f) ==
    Malformed(f.params[1].annotation) \/ (f.ret # Empty /\ Malformed(f.ret))

====
